---- MODULE Spec2Model ----
(***************************************************************************)
(* The IFRC GO Admin MCP server: tool dispatch, the upstream query client  *)
(* and its response cache.  Three builds of the server share the cache and *)
(* the client and differ in the dispatcher:                                *)
(*   "stdio"  src/src/index.ts            (SDK Server, switch dispatcher)  *)
(*   "http"   src/api/mcp.js 1025-1359    (plain HTTP handler)             *)
(*   "zod"    src/api/mcp.js 1360-2651    (createMcpHandler, zod schemas)  *)
(*                                                                         *)
(* Strings that are measured, matched or interpolated are sequences of     *)
(* one-character strings; a URL is the sequence of the template's literal  *)
(* pieces and of the characters of the interpolated values.                *)
(***************************************************************************)
EXTENDS Integers, Sequences, FiniteSets, TLC

VARIABLES
    variant,    \* which build of the server is running
    tools,      \* the tool registry (names, in registration order)
    cache,      \* IFRCAPIClient.cache: url -> [data, timestamp] (+ writer)
    now,        \* Date.now(), in milliseconds
    ticksLeft,  \* how many more times the clock may advance
    inbox,      \* the protocol requests the transport delivers, in order
    upstream,   \* which upstream API answers: its bodies and failures
    received,   \* how many requests of the inbox were delivered
    calls       \* per delivered request: its position, fetches and response

vars == <<variant, tools, cache, now, ticksLeft, inbox, upstream, received, calls>>

----------------------------------------------------------------------------
(* Bounds of the model *)

MaxCalls == 2       \* requests in one run of the core specification
MaxTicks == 2       \* clock advances in one run
MaxResults == 2     \* length of a results list in the statistics inputs
MaxOffset == 1      \* offsets 0..MaxOffset are supplied by callers
MaxEntries == 2     \* length of an ERU type catalogue
MaxWindowCalls == 3 \* requests in one run of the TTL-window specification

----------------------------------------------------------------------------
(* Program constants *)

cacheTimeout == 5 * 60 * 1000
baseUrl == "https://goadmin.ifrc.org/api/v2"

SchemaMinLimit == 1
SchemaMaxLimit == 1000
StdioDefaultLimit == 50
HttpDefaultLimit == 20
ZodListDefaultLimit == 50
ZodSearchDefaultLimit == 20
StatsLimit == 1000

----------------------------------------------------------------------------
(* Strings and numbers *)

Range(s) == {s[k] : k \in DOMAIN s}

DigitChar == <<"0", "1", "2", "3", "4", "5", "6", "7", "8", "9">>

\* \d
IsDigit(ch) == ch \in Range(DigitChar)

UpperCase ==
    <<"A", "B", "C", "D", "E", "F", "G", "H", "I", "J", "K", "L", "M",
      "N", "O", "P", "Q", "R", "S", "T", "U", "V", "W", "X", "Y", "Z">>

LowerCase ==
    <<"a", "b", "c", "d", "e", "f", "g", "h", "i", "j", "k", "l", "m",
      "n", "o", "p", "q", "r", "s", "t", "u", "v", "w", "x", "y", "z">>

\* s.toLowerCase()
toLowerCase(s) ==
    [k \in DOMAIN s |->
        IF s[k] \in Range(UpperCase)
        THEN LowerCase[CHOOSE j \in DOMAIN UpperCase : UpperCase[j] = s[k]]
        ELSE s[k]]

\* s.includes(sub)
includes(s, sub) ==
    \E k \in 0..(Len(s) - Len(sub)) : SubSeq(s, k + 1, k + Len(sub)) = sub

\* isNaN(s) for a string s of the characters callers supply: Number(s) is a
\* number when s is empty or all digits
isNaN(s) == \E k \in DOMAIN s : ~IsDigit(s[k])

\* a faulty variant of MatchesDate: the pattern without its `$`
MatchesDateUnanchored(s) ==
    /\ Len(s) >= 10
    /\ \A k \in 1..10 : IF k \in {5, 8} THEN s[k] = "-" ELSE IsDigit(s[k])

\* /^\d{4}-\d{2}-\d{2}$/.test(s)
MatchesDate(s) ==
    /\ Len(s) = 10
    /\ \A k \in 1..10 : IF k \in {5, 8} THEN s[k] = "-" ELSE IsDigit(s[k])

RECURSIVE NatToString(_)
NatToString(n) ==
    IF n < 10 THEN <<DigitChar[n + 1]>>
    ELSE NatToString(n \div 10) \o <<DigitChar[(n % 10) + 1]>>

\* `${n}` for an integer n
NumberToString(n) ==
    IF n < 0 THEN <<"-">> \o NatToString(0 - n) ELSE NatToString(n)

Unreserved ==
    {"A", "B", "D", "G", "X", "a", "b", "c", "d", "e", "f", "l", "o", "r", "t",
     "0", "1", "2", "3", "4", "5", "6", "7", "8", "9", "-", "_", ".", "!", "~", "*", "'", "(", ")"}

PercentCode(ch) ==
    CASE ch = " " -> <<"%", "2", "0">>
      [] ch = "&" -> <<"%", "2", "6">>
      [] ch = "=" -> <<"%", "3", "D">>
      [] ch = "/" -> <<"%", "2", "F">>
      [] OTHER -> <<ch>>

RECURSIVE encodeURIComponent(_)
encodeURIComponent(s) ==
    IF s = <<>> THEN <<>>
    ELSE (IF Head(s) \in Unreserved THEN <<Head(s)>> ELSE PercentCode(Head(s)))
         \o encodeURIComponent(Tail(s))

----------------------------------------------------------------------------
(* IFRCAPIClient: request descriptors (the URL is the cache key) *)

\* a faulty variant of listingUrl: limit and offset interchanged
listingUrlSwapped(path, limit, offset) ==
    <<baseUrl, path, "?", "limit", "=">> \o NumberToString(offset)
        \o <<"&", "offset", "=">> \o NumberToString(limit)

\* `${baseUrl}<path>?limit=${limit}&offset=${offset}`
listingUrl(path, limit, offset) ==
    <<baseUrl, path, "?", "limit", "=">> \o NumberToString(limit)
        \o <<"&", "offset", "=">> \o NumberToString(offset)

\* `${baseUrl}<path>?<param>=${value}&limit=${limit}`
filteredUrl(path, param, value, limit) ==
    <<baseUrl, path, "?", param, "=">> \o value
        \o <<"&", "limit", "=">> \o NumberToString(limit)

getCompletedDrefs(limit, offset) == listingUrl("/completed_dref/", limit, offset)

getOngoingDrefs(limit, offset) == listingUrl("/dref/", limit, offset)

getAppeals(limit, offset) == listingUrl("/appeal/", limit, offset)

getEmergencies(limit, offset) == listingUrl("/event/", limit, offset)

searchDrefsByCountry(countryIso, limit) ==
    filteredUrl("/dref/", "country__iso", countryIso, limit)

searchDrefsByDisasterType(disasterType, limit) ==
    filteredUrl("/dref/", "disaster_type__name__icontains",
                encodeURIComponent(disasterType), limit)

getPersonnelByType(type, limit) == filteredUrl("/personnel/", "type", type, limit)

getCountryProfile(countryId) ==
    <<baseUrl, "/country/">> \o NumberToString(countryId) \o <<"/">>

getERUTypes == <<baseUrl, "/erutype/">>

\* `${baseUrl}/event/?disaster_start_date__gte=${startDate}&disaster_start_date__lte=${endDate}&limit=${limit}`
searchOperationsByDateRange(startDate, endDate, limit) ==
    <<baseUrl, "/event/", "?", "disaster_start_date__gte", "=">> \o startDate
        \o <<"&", "disaster_start_date__lte", "=">> \o endDate
        \o <<"&", "limit", "=">> \o NumberToString(limit)

\* `${baseUrl}/eru/?type=${typeId}&limit=${limit}`
eruByTypeUrl(typeId, limit) == filteredUrl("/eru/", "type", typeId, limit)

\* a faulty variant of getDrefStatisticsUrls: the listings' default limit
getDrefStatisticsUrlsDefault ==
    <<getCompletedDrefs(StdioDefaultLimit, 0), getOngoingDrefs(StdioDefaultLimit, 0)>>

\* the two requests of getDrefStatistics, in the order of the Promise.all array
getDrefStatisticsUrls ==
    <<getCompletedDrefs(StatsLimit, 0), getOngoingDrefs(StatsLimit, 0)>>

\* the paginated listings: tool name -> endpoint path
ListPath ==
    [get_completed_drefs |-> "/completed_dref/",
     get_ongoing_drefs |-> "/dref/",
     get_appeals |-> "/appeal/",
     get_emergencies |-> "/event/",
     get_countries |-> "/country/",
     get_regions |-> "/region/",
     get_disaster_types |-> "/disaster_type/",
     get_field_reports |-> "/field_report/",
     get_personnel_deployments |-> "/personnel/",
     get_situation_reports |-> "/situation_report/",
     get_projects |-> "/project/",
     get_surge_deployments |-> "/surge_deployment/",
     get_flash_updates |-> "/flash_update/",
     get_erus |-> "/eru/",
     get_eru_readiness |-> "/eru_readiness/"]

\* the country-scoped listings: tool name -> endpoint path and filter name
CountryFilter ==
    [get_operations_by_country |-> [path |-> "/event/", param |-> "countries__in"],
     search_field_reports_by_country |-> [path |-> "/field_report/", param |-> "countries"],
     get_personnel_by_country |-> [path |-> "/personnel/", param |-> "country_deployed_to"],
     get_situation_reports_by_country |-> [path |-> "/situation_report/", param |-> "countries"],
     get_projects_by_country |-> [path |-> "/project/", param |-> "project_country"],
     get_flash_updates_by_country |-> [path |-> "/flash_update/", param |-> "countries"],
     get_erus_by_country |-> [path |-> "/eru/", param |-> "deployed_to"]]

----------------------------------------------------------------------------
(* The ERU type mapping: a JavaScript object, as the sequence of its own   *)
(* properties [name, value] in insertion order.  A value is a number, an   *)
(* object, a function or undefined.                                        *)

Number(n) == [type |-> "number", value |-> n]

ObjectValue == [type |-> "object", value |-> 0]

FunctionValue == [type |-> "function", value |-> 0]

Undefined == [type |-> "undefined", value |-> 0]

\* the truthiness of a value
Truthy(v) == v.type \in {"object", "function"} \/ (v.type = "number" /\ v.value # 0)

\* a || b
Or(a, b) == IF Truthy(a) THEN a ELSE b

HasOwn(m, name) == \E j \in DOMAIN m : m[j].name = name

\* m[name] = v
Put(m, name, v) ==
    IF HasOwn(m, name)
    THEN [j \in DOMAIN m |-> IF m[j].name = name THEN [name |-> name, value |-> v] ELSE m[j]]
    ELSE Append(m, [name |-> name, value |-> v])

\* m[name]: an own property, or one inherited from Object.prototype
Get(m, name) ==
    IF HasOwn(m, name) THEN m[CHOOSE j \in DOMAIN m : m[j].name = name].value
    ELSE IF name = <<"c", "o", "n", "s", "t", "r", "u", "c", "t", "o", "r">> THEN FunctionValue
    ELSE IF name = <<"_", "_", "p", "r", "o", "t", "o", "_", "_">> THEN ObjectValue
    ELSE Undefined

\* `${v}`
Render(v) ==
    CASE v.type = "number" -> NumberToString(v.value)
      [] v.type = "object" -> <<"[object Object]">>
      [] v.type = "function" -> <<"function Object() { [native code] }">>
      [] v.type = "undefined" -> <<"undefined">>

RECURSIVE Join(_, _)
\* Object.keys(m).join(sep), from the k-th property on
Join(m, k) ==
    IF k > Len(m) THEN <<>>
    ELSE m[k].name \o (IF k < Len(m) THEN <<", ">> ELSE <<>>) \o Join(m, k + 1)

wash == <<"w", "a", "s", "h">>

logistics == <<"l", "o", "g", "i", "s", "t", "i", "c", "s">>

relief == <<"r", "e", "l", "i", "e", "f">>

hospital == <<"h", "o", "s", "p", "i", "t", "a", "l">>

clinic == <<"c", "l", "i", "n", "i", "c">>

telecom == <<"t", "e", "l", "e", "c", "o", "m">>

it == <<"i", "t">>

\* if (label.includes('wash')) mapping['wash'] = mapping['wash'] || type.key
AddWash(m, label, key) ==
    IF includes(label, wash) THEN Put(m, wash, Or(Get(m, wash), key)) ELSE m

\* if (label.includes(alias)) mapping[alias] = type.key
AddAlias(m, label, key, alias) ==
    IF includes(label, alias) THEN Put(m, alias, key) ELSE m

\* mapping['telecom'] = mapping['telecom'] || type.key
AddTelecom(m, key) == Put(m, telecom, Or(Get(m, telecom), key))

\* if (label.includes('telecom') || label.includes('it')) { it; telecom }
AddIt(m, label, key) ==
    IF includes(label, telecom) \/ includes(label, it)
    THEN AddTelecom(Put(m, it, Or(Get(m, it), key)), key)
    ELSE m

\* the aliases of one catalogue entry, in the order of the statements
AddAliases(m, label, key) ==
    AddIt(AddAlias(AddAlias(AddAlias(AddAlias(AddWash(m, label, key),
                                              label, key, logistics),
                                     label, key, relief),
                            label, key, hospital),
                   label, key, clinic),
          label, key)

\* the body of eruTypes.forEach(type => ...)
AddType(m, type) ==
    AddAliases(Put(m, toLowerCase(type.label), Number(type.key)),
               toLowerCase(type.label), Number(type.key))

RECURSIVE forEach(_, _, _)
forEach(m, eruTypes, k) ==
    IF k > Len(eruTypes) THEN m ELSE forEach(AddType(m, eruTypes[k]), eruTypes, k + 1)

\* getERUTypeMapping, from the catalogue to the mapping it caches
getERUTypeMapping(eruTypes) ==
    Put(forEach(<<>>, eruTypes, 1), <<"_", "r", "e", "v", "e", "r", "s", "e">>, ObjectValue)

\* the cache key of the mapping
MappingKey == <<"eru_type_mapping">>

\* a JSON array in a response body
IsArray(body) == "array" \in DOMAIN body

----------------------------------------------------------------------------
(* The tool registries *)

DrefListTools ==
    {"get_completed_drefs", "get_ongoing_drefs", "get_appeals", "get_emergencies"}

ZodListTools == DOMAIN ListPath

ZodCountryTools == DOMAIN CountryFilter

\* src/src/index.ts: const tools
StdioToolList ==
    <<"get_completed_drefs", "get_ongoing_drefs", "get_appeals", "get_emergencies",
      "search_drefs_by_country", "search_drefs_by_disaster_type", "get_dref_statistics">>

\* a faulty variant of HttpToolList: a descriptor pasted twice
HttpToolListDuplicated ==
    <<"get_completed_drefs", "get_ongoing_drefs", "get_appeals", "get_appeals",
      "get_emergencies", "search_drefs_by_country", "search_drefs_by_disaster_type",
      "get_dref_statistics">>

\* src/api/mcp.js: const tools
HttpToolList ==
    <<"get_completed_drefs", "get_ongoing_drefs", "get_appeals", "get_emergencies",
      "search_drefs_by_country", "search_drefs_by_disaster_type", "get_dref_statistics">>

\* src/api/mcp.js: the server.tool(...) registrations, in order
ZodToolList ==
    <<"get_completed_drefs", "get_ongoing_drefs", "get_appeals", "get_emergencies",
      "search_drefs_by_country", "search_drefs_by_disaster_type", "get_dref_statistics",
      "get_countries", "get_country_profile", "get_regions", "get_disaster_types",
      "search_operations_by_date_range", "get_operations_by_country",
      "get_field_reports", "search_field_reports_by_country",
      "get_personnel_deployments", "get_personnel_by_country", "get_personnel_by_type",
      "get_situation_reports", "get_situation_reports_by_country",
      "get_projects", "get_projects_by_country", "get_surge_deployments",
      "get_flash_updates", "get_flash_updates_by_country",
      "get_erus", "get_erus_by_country", "get_erus_by_type",
      "get_eru_readiness", "get_eru_types">>

StdioTools == Range(StdioToolList)

HttpTools == Range(HttpToolList)

ZodTools == Range(ZodToolList)

ToolList(v) ==
    CASE v = "stdio" -> StdioToolList
      [] v = "http" -> HttpToolList
      [] v = "zod" -> ZodToolList

Registry(v) == Range(ToolList(v))

----------------------------------------------------------------------------
(* Dispatch: from a tool name and its arguments to the requests to fetch,   *)
(* or to the error thrown before any request.  An arguments object is a     *)
(* function from the names of the parameters supplied to their values.      *)

Has(args, p) == p \in DOMAIN args

\* args?.p || d, for a numeric p
FalsyOr(args, p, d) == IF Has(args, p) /\ args[p] # 0 THEN args[p] ELSE d

\* const { p = d } = args || {}
UndefinedOr(args, p, d) == IF Has(args, p) THEN args[p] ELSE d

\* a faulty variant of Missing: only an absent parameter is missing
MissingIfAbsent(args, p) == ~Has(args, p)

\* !args.p, for a string p
Missing(args, p) == ~Has(args, p) \/ args[p] = <<>>

Fetch(urls) == [kind |-> "fetch", urls |-> urls, message |-> <<>>]

Throw(message) == [kind |-> "throw", urls |-> <<>>, message |-> message]

Reject(message) == [kind |-> "reject", urls |-> <<>>, message |-> message]

\* getERUsByType with a label: the type id is resolved before the request
Resolve(eruType, limit) ==
    [kind |-> "resolve", urls |-> <<>>, message |-> <<>>,
     eruType |-> eruType, limit |-> limit]

\* a faulty variant of the switch: an unknown name falls through to the
\* first listing instead of throwing
SwitchPlanFallsThrough(name, args, defaultLimit) ==
    IF name \in DrefListTools \cup {"search_drefs_by_country",
                                    "search_drefs_by_disaster_type", "get_dref_statistics"}
    THEN Throw(<<"Tool unavailable">>)
    ELSE Fetch(<<getCompletedDrefs(defaultLimit, 0)>>)

\* the switch of the tools: listings, searches, statistics, default
SwitchPlan(name, args, defaultLimit) ==
    CASE name = "get_completed_drefs" ->
            Fetch(<<getCompletedDrefs(FalsyOr(args, "limit", defaultLimit),
                                      FalsyOr(args, "offset", 0))>>)
      [] name = "get_ongoing_drefs" ->
            Fetch(<<getOngoingDrefs(FalsyOr(args, "limit", defaultLimit),
                                    FalsyOr(args, "offset", 0))>>)
      [] name = "get_appeals" ->
            Fetch(<<getAppeals(FalsyOr(args, "limit", defaultLimit),
                               FalsyOr(args, "offset", 0))>>)
      [] name = "get_emergencies" ->
            Fetch(<<getEmergencies(FalsyOr(args, "limit", defaultLimit),
                                   FalsyOr(args, "offset", 0))>>)
      [] name = "search_drefs_by_country" ->
            IF Missing(args, "country_iso")
            THEN Throw(<<"country_iso", " parameter is required">>)
            ELSE Fetch(<<searchDrefsByCountry(args["country_iso"],
                                              UndefinedOr(args, "limit", defaultLimit))>>)
      [] name = "search_drefs_by_disaster_type" ->
            IF Missing(args, "disaster_type")
            THEN Throw(<<"disaster_type", " parameter is required">>)
            ELSE Fetch(<<searchDrefsByDisasterType(args["disaster_type"],
                                                   UndefinedOr(args, "limit", defaultLimit))>>)
      [] name = "get_dref_statistics" -> Fetch(getDrefStatisticsUrls)
      [] OTHER -> Throw(<<"Unknown tool: ", name>>)

\* src/src/index.ts: the CallToolRequestSchema handler's switch
StdioPlan(name, args) == SwitchPlan(name, args, StdioDefaultLimit)

\* src/api/mcp.js: handleToolCall's switch
HttpPlan(name, args) == SwitchPlan(name, args, HttpDefaultLimit)

----------------------------------------------------------------------------
(* The zod build: schemas of server.tool(...) and the handlers behind them *)

ZodLimitTools ==
    ZodListTools \cup ZodCountryTools \cup
    {"search_drefs_by_country", "search_drefs_by_disaster_type", "get_personnel_by_type",
     "search_operations_by_date_range", "get_erus_by_type"}

\* z.number().int().min(1).max(1000)
ZodLimitOk(v) == v >= SchemaMinLimit /\ v <= SchemaMaxLimit

\* .optional().default(n) of the limit of a tool
ZodLimitDefault(name) ==
    IF name \in ZodListTools THEN ZodListDefaultLimit ELSE ZodSearchDefaultLimit

\* the parameters of args that fail the schema of the tool
ZodIssues(name, args) ==
    {p \in {"limit"} :
        name \in ZodLimitTools /\ Has(args, p) /\ ~ZodLimitOk(args[p])}
    \cup {p \in {"offset"} :
        name \in ZodListTools /\ Has(args, p) /\ args[p] < 0}
    \cup {p \in {"country_iso"} :
        name = "search_drefs_by_country"
        /\ (~Has(args, p) \/ Len(args[p]) < 2 \/ Len(args[p]) > 3)}
    \cup {p \in {"disaster_type"} :
        name = "search_drefs_by_disaster_type" /\ (~Has(args, p) \/ Len(args[p]) < 1)}
    \cup {p \in {"type"} :
        name = "get_personnel_by_type" /\ (~Has(args, p) \/ Len(args[p]) < 1)}
    \cup {p \in {"country_id"} :
        name \in ZodCountryTools \cup {"get_country_profile"}
        /\ (~Has(args, p) \/ args[p] < 1)}
    \cup {p \in {"start_date", "end_date"} :
        name = "search_operations_by_date_range"
        /\ (~Has(args, p) \/ ~MatchesDate(args[p]))}
    \cup {p \in {"eru_type"} :
        name = "get_erus_by_type"
        /\ (\/ ~Has(args, p)
            \/ (args[p].type = "string" /\ Len(args[p].chars) < 1)
            \/ (args[p].type = "number" /\ args[p].value < 0))}

\* the parsed arguments: the schema's defaults filled in
ZodParsed(name, args) ==
    LET withLimit == IF name \in ZodLimitTools THEN {"limit"} ELSE {}
        withOffset == IF name \in ZodListTools THEN {"offset"} ELSE {}
    IN  [p \in DOMAIN args \cup withLimit \cup withOffset |->
            IF Has(args, p) THEN args[p]
            ELSE IF p = "limit" THEN ZodLimitDefault(name) ELSE 0]

\* IFRCAPIClient.getERUsByType, up to its first await; eru_type is
\* [type |-> "string", chars |-> characters] or [type |-> "number", value |-> n]
getERUsByType(eruType, limit) ==
    IF eruType.type = "string" /\ isNaN(eruType.chars)
    THEN Resolve(eruType.chars, limit)
    ELSE Fetch(<<eruByTypeUrl(IF eruType.type = "string" THEN eruType.chars
                              ELSE NumberToString(eruType.value), limit)>>)

\* the callback registered for the tool, on parsed arguments
ZodHandler(name, args) ==
    CASE name \in ZodListTools ->
            Fetch(<<listingUrl(ListPath[name],
                               UndefinedOr(args, "limit", 50),
                               UndefinedOr(args, "offset", 0))>>)
      [] name \in ZodCountryTools ->
            Fetch(<<filteredUrl(CountryFilter[name].path, CountryFilter[name].param,
                                NumberToString(args["country_id"]), args["limit"])>>)
      [] name = "search_drefs_by_country" ->
            Fetch(<<searchDrefsByCountry(args["country_iso"], args["limit"])>>)
      [] name = "search_drefs_by_disaster_type" ->
            Fetch(<<searchDrefsByDisasterType(args["disaster_type"], args["limit"])>>)
      [] name = "get_personnel_by_type" ->
            Fetch(<<getPersonnelByType(args["type"], args["limit"])>>)
      [] name = "get_country_profile" ->
            Fetch(<<getCountryProfile(args["country_id"])>>)
      [] name = "get_eru_types" -> Fetch(<<getERUTypes>>)
      [] name = "get_dref_statistics" -> Fetch(getDrefStatisticsUrls)
      [] name = "search_operations_by_date_range" ->
            Fetch(<<searchOperationsByDateRange(args["start_date"], args["end_date"],
                                                args["limit"])>>)
      [] name = "get_erus_by_type" -> getERUsByType(args["eru_type"], args["limit"])

\* what the protocol library answers without running a callback: the name
\* is not registered, or the arguments fail the schema
RECURSIVE Listed(_)
\* the elements of a set of names, one after the other
Listed(names) ==
    IF names = {} THEN <<>>
    ELSE LET p == CHOOSE q \in names : TRUE IN <<p>> \o Listed(names \ {p})

LibraryReject(name, issues) ==
    IF issues = {} THEN Reject(<<"Unknown tool: ", name>>)
    ELSE Reject(<<"Invalid arguments: ">> \o Listed(issues))

ZodPlan(name, args) ==
    IF name \notin ZodTools THEN LibraryReject(name, {})
    ELSE IF ZodIssues(name, args) # {} THEN LibraryReject(name, ZodIssues(name, args))
    ELSE ZodHandler(name, ZodParsed(name, args))

Plan(v, name, args) ==
    CASE v = "stdio" -> StdioPlan(name, args)
      [] v = "http" -> HttpPlan(name, args)
      [] v = "zod" -> ZodPlan(name, args)

----------------------------------------------------------------------------
(* getDrefStatistics: the reduction.  A JSON number n is <<n>>, null is     *)
(* <<>>, a missing field is absent from the record.                        *)

\* a faulty variant of AmountOr0: only a missing field counts as 0, null
\* is read as a number
AmountOrNull(op, f) ==
    IF f \in DOMAIN op THEN (IF op[f] = <<>> THEN 1 ELSE op[f][1]) ELSE 0

\* op.f || 0
AmountOr0(op, f) ==
    IF f \in DOMAIN op /\ op[f] # <<>> /\ op[f][1] # 0 THEN op[f][1] ELSE 0

\* ops.reduce((sum, op) => sum + (op.f || 0), 0)
RECURSIVE ReduceFrom(_, _, _)
ReduceFrom(sum, ops, f) ==
    IF ops = <<>> THEN sum
    ELSE ReduceFrom(sum + AmountOr0(Head(ops), f), Tail(ops), f)

HasResults(body) == "results" \in DOMAIN body

getDrefStatistics(completed, ongoing) ==
    LET allOperations == completed.results \o ongoing.results
    IN  [total_operations |-> Len(allOperations),
         total_requested |-> ReduceFrom(0, allOperations, "amount_requested"),
         total_funded |-> ReduceFrom(0, allOperations, "amount_funded"),
         active_operations |-> Len(ongoing.results)]

----------------------------------------------------------------------------
(* Error messages (sequences of pieces) and Result Envelopes *)

\* throw new Error(`HTTP ${response.status}: ${response.statusText}`), a
\* rejected fetch, or a rejected response.json()
FailureMessage(f) ==
    IF f.kind = "http"
    THEN <<"HTTP ">> \o NumberToString(f.status) \o <<": ", f.message>>
    ELSE <<f.message>>

\* a faulty variant of FetchError: the catch drops the message it caught
FetchErrorUnknown(f) == <<"Failed to fetch data from IFRC API: ", "Unknown error">>

\* the catch of fetchWithCache
FetchError(f) == <<"Failed to fetch data from IFRC API: ">> \o FailureMessage(f)

\* the catch of getDrefStatistics
StatisticsError(message) == <<"Failed to calculate DREF statistics: ">> \o message

\* the catch of getERUTypeMapping
MappingError(message) == <<"Failed to fetch ERU type mapping: ">> \o message

\* the error of getERUsByType for a label the mapping does not have
UnknownERUType(eruType, typeMapping) ==
    <<"Unknown ERU type: ">> \o eruType \o <<". Available types: ">> \o Join(typeMapping, 1)

\* JSON.stringify(result, null, 2)
JSONstringify(result) == [kind |-> "json", value |-> result]

ErrorText(message) == [kind |-> "message", value |-> <<"Error: ">> \o message]

\* a faulty variant of SuccessEnvelope: the payload is not serialized and
\* the envelope is flagged
SuccessEnvelopeFlagged(result) ==
    [content |-> <<[type |-> "text", text |-> [kind |-> "object", value |-> result]]>>,
     isError |-> TRUE]

SuccessEnvelope(result) ==
    [content |-> <<[type |-> "text", text |-> JSONstringify(result)]>>]

ErrorEnvelope(message) ==
    [content |-> <<[type |-> "text", text |-> ErrorText(message)]>>, isError |-> TRUE]

\* the answer to a successful tools/call
SuccessResponse(v, result) == [status |-> 200, body |-> SuccessEnvelope(result)]

\* the answer to a tools/call whose handler threw `message`
ErrorResponse(v, message) ==
    IF v = "http"
    THEN LET wrapped == <<"Tool execution failed: ">> \o message
         IN  [status |-> 500,
              body |-> [error |-> wrapped,
                        content |-> <<[type |-> "text", text |-> ErrorText(wrapped)]>>,
                        isError |-> TRUE]]
    ELSE [status |-> 200, body |-> ErrorEnvelope(message)]

\* the answer to tools/list
ListResponse(registry) == [status |-> 200, body |-> [tools |-> registry]]

NoResponse == [status |-> 0, body |-> [none |-> TRUE]]

----------------------------------------------------------------------------
(* The environment: requests, upstream answers, the clock *)

Variants == {"stdio", "http", "zod"}

Call(name, args) == [method |-> "tools/call", name |-> name, args |-> args]

NoArgs == [p \in {} |-> 0]

ListTools == [method |-> "tools/list", name |-> "", args |-> NoArgs]

\* tools/list with parameters
ListToolsWith(args) == [method |-> "tools/list", name |-> "", args |-> args]

\* the results lists of the documented example, and a body without results
CompletedExample ==
    [results |-> <<[amount_requested |-> <<100>>, amount_funded |-> <<50>>]>>]

OngoingExample ==
    [results |-> <<[amount_requested |-> <<200>>, amount_funded |-> <<200>>]>>]

BareObject == [detail |-> "ok"]

\* upstream failures: a non-2xx status, a rejected fetch, an unparsable body
HttpFailure == [kind |-> "http", status |-> 503, message |-> "Service Unavailable"]

NotFound == [kind |-> "http", status |-> 404, message |-> "Not Found"]

NetworkFailure == [kind |-> "network", status |-> 0, message |-> "socket hang up"]

ParseFailure == [kind |-> "parse", status |-> 200, message |-> "invalid json response body"]

\* what the upstream API may answer in the core specification
CoreUpstream ==
    [bodies |-> {CompletedExample, OngoingExample}, failures |-> {HttpFailure}]

\* the clock advances by a millisecond or by a millisecond less than the TTL
TickDeltas == {1, cacheTimeout - 1}

\* limits and offsets callers supply: around the bounds of the schema (1 and
\* 1000), the defaults (20, 50), zero and a negative value
LimitInputs ==
    {0 - 1, 0, SchemaMinLimit, HttpDefaultLimit, StdioDefaultLimit,
     SchemaMaxLimit - 1, SchemaMaxLimit, SchemaMaxLimit + 1}

OffsetInputs == (0 - 1)..MaxOffset

IsoInputs == {<<>>, <<"B">>, <<"B", "D">>, <<"B", "G", "D">>, <<"B", "G", "D", "X">>}

TextInputs == {<<>>, <<"f", "l", "o", "o", "d">>, <<"a", "&", "b">>}

CountryIdInputs == {0, 1, 12}

\* the arguments objects of A, and each of them with p set to a value of V
Extend(a, p, v) == [q \in DOMAIN a \cup {p} |-> IF q = p THEN v ELSE a[q]]

Opt(A, p, V) == A \cup {Extend(a, p, v) : a \in A, v \in V}

ListArgs == Opt(Opt({NoArgs}, "limit", LimitInputs), "offset", OffsetInputs)

IsoArgs == Opt(Opt({NoArgs}, "country_iso", IsoInputs), "limit", LimitInputs)

DisasterArgs == Opt(Opt({NoArgs}, "disaster_type", TextInputs), "limit", LimitInputs)

TypeArgs == Opt(Opt({NoArgs}, "type", TextInputs), "limit", LimitInputs)

CountryArgs == Opt(Opt({NoArgs}, "country_id", CountryIdInputs), "limit", LimitInputs)

ProfileArgs == Opt({NoArgs}, "country_id", CountryIdInputs)

\* dates: well formed, wrong separator, trailing character, short month, empty
DateInputs ==
    {<<"2", "0", "2", "3", "-", "0", "5", "-", "1", "4">>,
     <<"2", "0", "2", "3", "/", "0", "5", "/", "1", "4">>,
     <<"2", "0", "2", "3", "-", "0", "5", "-", "1", "4", "T">>,
     <<"2", "0", "2", "3", "-", "5", "-", "1", "4">>,
     <<>>}

DateArgs ==
    Opt(Opt(Opt({NoArgs}, "start_date", DateInputs), "end_date", DateInputs),
        "limit", LimitInputs)

String(chars) == [type |-> "string", chars |-> chars]

\* ERU types callers name: aliases and labels in either case, names no
\* catalogue has, numerals, the empty string, numbers
EruLabelInputs ==
    {wash, <<"W", "A", "S", "H">>, <<"W", "a", "s", "h", " ", "1", "5">>, it,
     <<"n", "o", "p", "e">>,
     <<"_", "r", "e", "v", "e", "r", "s", "e">>,
     <<"c", "o", "n", "s", "t", "r", "u", "c", "t", "o", "r">>}

EruTypeInputs ==
    {String(l) : l \in EruLabelInputs}
    \cup {String(<<"5">>), String(<<>>), Number(5), Number(0), Number(0 - 1)}

EruArgs == Opt(Opt({NoArgs}, "eru_type", EruTypeInputs), "limit", LimitInputs)

\* ERU type catalogues: entries with a key (0 included) and a label
CatalogueEntries ==
    {[key |-> k, label |-> l] :
        k \in {0, 5},
        l \in {<<"W", "A", "S", "H", " ", "1", "5">>, <<"w", "a", "s", "h">>, <<"I", "T">>}}

WashCatalogue ==
    [array |-> <<[key |-> 5, label |-> <<"W", "A", "S", "H", " ", "1", "5">>],
                 [key |-> 3, label |-> <<"I", "T">>]>>]

\* one request of every tool of the largest registry, of an unregistered
\* name and of tools/list, with every arguments object above
DispatchRequests ==
    {Call(n, a) : n \in ZodListTools, a \in ListArgs}
    \cup {Call(n, a) : n \in ZodCountryTools, a \in CountryArgs}
    \cup {Call("search_drefs_by_country", a) : a \in IsoArgs}
    \cup {Call("search_drefs_by_disaster_type", a) : a \in DisasterArgs}
    \cup {Call("get_personnel_by_type", a) : a \in TypeArgs}
    \cup {Call("get_country_profile", a) : a \in ProfileArgs}
    \cup {Call(n, NoArgs) : n \in {"get_dref_statistics", "get_eru_types", "get_unknown_tool"}}
    \cup {Call("search_operations_by_date_range", a) : a \in DateArgs}
    \cup {Call("get_erus_by_type", a) : a \in EruArgs}
    \cup {ListTools, ListToolsWith([p \in {"limit"} |-> 1])}

DispatchUpstream ==
    [bodies |-> {CompletedExample, OngoingExample, BareObject, WashCatalogue},
     failures |-> {HttpFailure, NotFound, NetworkFailure, ParseFailure}]

\* the results lists of the statistics inputs: every field missing, null,
\* zero or positive
OperationInputs ==
    {[amount_requested |-> <<100>>, amount_funded |-> <<50>>],
     [amount_requested |-> <<>>, amount_funded |-> <<0>>],
     [amount_requested |-> <<200>>, amount_funded |-> <<>>],
     [amount_requested |-> <<0>>],
     [amount_funded |-> <<200>>]}

RECURSIVE ListsUpTo(_, _)
ListsUpTo(S, n) ==
    IF n = 0 THEN {<<>>}
    ELSE ListsUpTo(S, n - 1) \cup {Append(l, x) : l \in ListsUpTo(S, n - 1), x \in S}

StatisticsUpstream ==
    [bodies |-> {[results |-> l] : l \in ListsUpTo(OperationInputs, MaxResults)},
     failures |-> {HttpFailure}]

\* every catalogue of up to MaxEntries entries, and a listing
CatalogueUpstream ==
    [bodies |-> {[array |-> l] : l \in ListsUpTo(CatalogueEntries, MaxEntries)}
                \cup {CompletedExample},
     failures |-> {HttpFailure}]

CatalogueRequests ==
    {Call("get_erus_by_type", [p \in {"eru_type"} |-> String(l)]) : l \in EruLabelInputs}

EruUpstream ==
    [bodies |-> {WashCatalogue, CompletedExample}, failures |-> {HttpFailure}]

EruRequests ==
    {Call("get_erus_by_type", [p \in {"eru_type"} |-> String(wash)]),
     Call("get_erus_by_type", [p \in {"eru_type"} |-> String(<<"n", "o", "p", "e">>)]),
     Call("get_eru_types", NoArgs),
     Call("get_dref_statistics", NoArgs)}

\* the TTL window: label resolutions and catalogue listings
WindowUpstream == [bodies |-> {WashCatalogue}, failures |-> {HttpFailure}]

WindowRequests ==
    {Call("get_erus_by_type", [p \in {"eru_type"} |-> String(wash)]),
     Call("get_eru_types", NoArgs)}

\* termination: a listing, the statistics, a label resolution
LiveRequests ==
    {Call("get_completed_drefs", NoArgs),
     Call("get_dref_statistics", NoArgs),
     Call("get_erus_by_type", [p \in {"eru_type"} |-> String(wash)])}

Answers(u) ==
    CASE u = "core" -> CoreUpstream
      [] u = "dispatch" -> DispatchUpstream
      [] u = "statistics" -> StatisticsUpstream
      [] u = "catalogue" -> CatalogueUpstream
      [] u = "eru" -> EruUpstream
      [] u = "window" -> WindowUpstream

CoreRequests ==
    {Call("get_completed_drefs", NoArgs),
     Call("get_completed_drefs", [p \in {"limit"} |-> StatsLimit]),
     Call("get_dref_statistics", NoArgs),
     Call("get_unknown_tool", NoArgs),
     ListTools,
     ListToolsWith([p \in {"limit"} |-> 1])}

----------------------------------------------------------------------------
(* State of a call and of its fetches *)

NoData == [none |-> TRUE]

\* the failure of a request that has not failed
NoFailure == [kind |-> "none", status |-> 0, message |-> ""]

\* no lookup of the type mapping: the call is no label resolution
NoLookup ==
    [url |-> <<>>, state |-> "none", data |-> NoData, seenBy |-> 0, seenAge |-> 0 - 1,
     storedAt |-> 0 - 1, failure |-> NoFailure]

IdleCall ==
    [pc |-> "idle", fetches |-> <<>>, response |-> NoResponse, resolving |-> FALSE,
     typeMapping |-> NoLookup, after |-> {}, at |-> 0]

\* faulty variants of the freshness test: inverted, and inclusive of the TTL
IsFreshInverted(c, url, t) == url \in DOMAIN c /\ t - c[url].timestamp > cacheTimeout

IsFreshInclusive(c, url, t) == url \in DOMAIN c /\ t - c[url].timestamp <= cacheTimeout

\* cached && Date.now() - cached.timestamp < this.cacheTimeout
IsFresh(c, url, t) == url \in DOMAIN c /\ t - c[url].timestamp < cacheTimeout

\* a faulty variant of CacheSet: a write sweeps the stale entries out
CacheSetSweeping(c, url, data, t, by) ==
    [u \in {k \in DOMAIN c : t - c[k].timestamp < cacheTimeout} \cup {url} |->
        IF u = url THEN [data |-> data, timestamp |-> t, by |-> by] ELSE c[u]]

\* a faulty variant of CacheSet: an entry already there is kept
CacheSetIfAbsent(c, url, data, t, by) ==
    [u \in DOMAIN c \cup {url} |->
        IF u \in DOMAIN c THEN c[u] ELSE [data |-> data, timestamp |-> t, by |-> by]]

\* this.cache.set(url, { data, timestamp: Date.now() }); `by` records the
\* call whose fetch stored the entry
CacheSet(c, url, data, t, by) ==
    [u \in DOMAIN c \cup {url} |->
        IF u = url THEN [data |-> data, timestamp |-> t, by |-> by] ELSE c[u]]

\* fetchWithCache up to its first await: a hit returns cached.data, a miss
\* issues the request.  seenBy, seenAge record the entry found (0, -1: none),
\* failure the rejection of the request, if it is rejected
Lookup(c, url, t) ==
    [url |-> url,
     state |-> IF IsFresh(c, url, t) THEN "hit" ELSE "pending",
     data |-> IF IsFresh(c, url, t) THEN c[url].data ELSE NoData,
     seenBy |-> IF url \in DOMAIN c THEN c[url].by ELSE 0,
     seenAge |-> IF url \in DOMAIN c THEN t - c[url].timestamp ELSE 0 - 1,
     storedAt |-> 0 - 1,
     failure |-> NoFailure]

\* getERUTypeMapping up to its first await: what this.cache.get(cacheKey)
\* finds, a hit returns cached.data
MappingLookup(cch, t, plan) ==
    IF plan.kind # "resolve" THEN NoLookup
    ELSE [Lookup(cch, MappingKey, t) EXCEPT
             !.state = IF IsFresh(cch, MappingKey, t) THEN "hit" ELSE "miss"]

\* a faulty variant of Settled: a race, the first answer settles the call
SettledByAny(fs) == \E i \in DOMAIN fs : fs[i].state \in {"hit", "ok"}

\* Promise.all / await: every request of the call has its data
Settled(fs) == \A i \in DOMAIN fs : fs[i].state \in {"hit", "ok"}

\* what the handler returns once every request of the call has its data
Outcome(v, name, fs) ==
    IF name = "get_dref_statistics"
    THEN IF HasResults(fs[1].data) /\ HasResults(fs[2].data)
         THEN SuccessResponse(v, getDrefStatistics(fs[1].data, fs[2].data))
         ELSE ErrorResponse(v, StatisticsError(<<"results is not iterable">>))
    ELSE SuccessResponse(v, fs[Len(fs)].data)

\* a faulty variant of WithMapping: the label goes into the request as it is
WithMappingVerbatim(cch, t, plan, fs, typeMapping) ==
    [cache |-> cch, failed |-> FALSE, error |-> <<>>,
     fetches |-> Append(fs, Lookup(cch, eruByTypeUrl(plan.eruType, plan.limit), t))]

\* getERUsByType once it has the mapping: the label is looked up and the
\* listing requested, or the label is unknown.  A run is the cache, the
\* requests of the call and the error thrown, if any.
WithMapping(cch, t, plan, fs, typeMapping) ==
    LET typeId == Get(typeMapping, toLowerCase(plan.eruType))
    IN  IF typeId = Undefined
        THEN [cache |-> cch, fetches |-> fs, failed |-> TRUE,
              error |-> UnknownERUType(plan.eruType, typeMapping)]
        ELSE [cache |-> cch, failed |-> FALSE, error |-> <<>>,
              fetches |-> Append(fs, Lookup(cch, eruByTypeUrl(Render(typeId), plan.limit), t))]

\* getERUTypeMapping once getERUTypes has returned fs[1].data: the mapping
\* is built and cached, or building it throws
WithCatalogue(cch, t, c, plan, fs) ==
    LET eruTypes == fs[1].data
    IN  IF ~IsArray(eruTypes)
        THEN [cache |-> cch, fetches |-> fs, failed |-> TRUE,
              error |-> MappingError(<<"eruTypes.forEach is not a function">>)]
        ELSE LET mapping == getERUTypeMapping(eruTypes.array)
             IN  WithMapping(CacheSet(cch, MappingKey, mapping, t, c), t, plan, fs, mapping)

\* a faulty variant of StartResolve: the mapping is built on every call
StartResolveUncached(cch, t, c, plan) ==
    LET f == Lookup(cch, getERUTypes, t)
    IN  IF f.state = "hit" THEN WithCatalogue(cch, t, c, plan, <<f>>)
        ELSE [cache |-> cch, fetches |-> <<f>>, failed |-> FALSE, error |-> <<>>]

\* getERUsByType with a label, up to its first pending request
StartResolve(cch, t, c, plan) ==
    IF IsFresh(cch, MappingKey, t)
    THEN WithMapping(cch, t, plan, <<>>, cch[MappingKey].data)
    ELSE LET f == Lookup(cch, getERUTypes, t)
         IN  IF f.state = "hit" THEN WithCatalogue(cch, t, c, plan, <<f>>)
             ELSE [cache |-> cch, fetches |-> <<f>>, failed |-> FALSE, error |-> <<>>]

\* a faulty variant of Start: a hit renews the timestamp of the entry
StartSliding(cch, t, c, plan) ==
    LET fs == [i \in 1..Len(plan.urls) |-> Lookup(cch, plan.urls[i], t)]
        hits == {fs[i].url : i \in {j \in DOMAIN fs : fs[j].state = "hit"}}
    IN  IF plan.kind = "resolve" THEN StartResolve(cch, t, c, plan)
        ELSE [cache |-> [u \in DOMAIN cch |->
                            IF u \in hits THEN [cch[u] EXCEPT !.timestamp = t] ELSE cch[u]],
              fetches |-> fs,
              failed |-> plan.kind # "fetch",
              error |-> plan.message]

\* a call up to its first pending request
Start(cch, t, c, plan) ==
    IF plan.kind = "resolve" THEN StartResolve(cch, t, c, plan)
    ELSE [cache |-> cch,
          fetches |-> [i \in 1..Len(plan.urls) |-> Lookup(cch, plan.urls[i], t)],
          failed |-> plan.kind # "fetch",
          error |-> plan.message]

\* the call still awaits the catalogue before it can request the listing
AwaitsCatalogue(plan, run) ==
    /\ plan.kind = "resolve"
    /\ ~run.failed
    /\ Len(run.fetches) = 1
    /\ run.fetches[1].url = getERUTypes
    /\ run.fetches[1].state = "pending"

\* what the handler returns when a request of the call failed
FailedOutcome(v, name, f) ==
    IF name = "get_dref_statistics"
    THEN ErrorResponse(v, StatisticsError(FetchError(f)))
    ELSE ErrorResponse(v, FetchError(f))

----------------------------------------------------------------------------
(* Actions *)

\* The transport delivers the next request; the dispatcher runs it up to its
\* first await (or to its end, when nothing is fetched).
Receive(c) ==
    /\ c = received + 1
    /\ c <= Len(inbox)
    /\ received' = c
    /\ LET req == inbox[c]
           plan == IF req.method = "tools/list" THEN Fetch(<<>>)
                   ELSE Plan(variant, req.name, req.args)
           run == Start(cache, now, c, plan)
           done == {d \in 1..Len(inbox) : calls[d].pc = "done"}
           resp == IF req.method = "tools/list" THEN ListResponse(tools)
                   ELSE IF run.failed THEN ErrorResponse(variant, run.error)
                   ELSE IF ~AwaitsCatalogue(plan, run) /\ Settled(run.fetches)
                        THEN Outcome(variant, req.name, run.fetches)
                   ELSE NoResponse
       IN  /\ cache' = run.cache
           /\ calls' = [calls EXCEPT ![c] =
                            [pc |-> IF resp = NoResponse THEN "waiting" ELSE "done",
                             fetches |-> run.fetches,
                             response |-> resp,
                             resolving |-> AwaitsCatalogue(plan, run),
                             typeMapping |-> MappingLookup(cache, now, plan),
                             after |-> done,
                             at |-> now]]
    /\ UNCHANGED <<variant, tools, now, ticksLeft, inbox, upstream>>

\* A request of call c is answered 2xx with a JSON body: the body is cached
\* and, when it was the last one awaited, the call returns.
FetchOk(c, i, body) ==
    /\ c \in 1..received
    /\ i \in DOMAIN calls[c].fetches
    /\ calls[c].fetches[i].state = "pending"
    /\ LET f == calls[c].fetches[i]
           fs == [calls[c].fetches EXCEPT
                     ![i] = [f EXCEPT !.state = "ok", !.data = body, !.storedAt = now]]
           stored == CacheSet(cache, f.url, body, now, c)
           run == IF calls[c].resolving
                  THEN WithCatalogue(stored, now, c,
                                     Plan(variant, inbox[c].name, inbox[c].args), fs)
                  ELSE [cache |-> stored, fetches |-> fs, failed |-> FALSE, error |-> <<>>]
           returns == calls[c].pc = "waiting" /\ (run.failed \/ Settled(run.fetches))
       IN  /\ cache' = run.cache
           /\ calls' = [calls EXCEPT ![c] =
                            [@ EXCEPT !.fetches = run.fetches,
                                      !.resolving = FALSE,
                                      !.pc = IF returns THEN "done" ELSE @,
                                      !.response =
                                          IF ~returns THEN @
                                          ELSE IF run.failed
                                          THEN ErrorResponse(variant, run.error)
                                          ELSE Outcome(variant, inbox[c].name, run.fetches)]]
    /\ UNCHANGED <<variant, tools, now, ticksLeft, inbox, upstream, received>>

\* a faulty variant of FetchFail: the failed request is issued again
FetchFailRetried(c, i, failure) ==
    /\ c \in 1..received
    /\ i \in DOMAIN calls[c].fetches
    /\ calls[c].fetches[i].state = "pending"
    /\ calls' = [calls EXCEPT ![c].fetches =
                    Append([@ EXCEPT ![i].state = "failed"], calls[c].fetches[i])]
    /\ UNCHANGED <<variant, tools, cache, now, ticksLeft, inbox, upstream, received>>

\* a faulty variant of FetchFail: the failure is cached like a body
FetchFailCached(c, i, failure) ==
    /\ c \in 1..received
    /\ i \in DOMAIN calls[c].fetches
    /\ calls[c].fetches[i].state = "pending"
    /\ cache' = CacheSet(cache, calls[c].fetches[i].url, [error |-> failure], now, c)
    /\ calls' = [calls EXCEPT ![c] =
                    [@ EXCEPT !.fetches[i].state = "failed",
                              !.pc = "done",
                              !.response =
                                  IF calls[c].pc = "waiting"
                                  THEN ErrorResponse(variant, FetchError(failure))
                                  ELSE @]]
    /\ UNCHANGED <<variant, tools, now, ticksLeft, inbox, upstream, received>>

\* A request of call c fails: nothing is cached and, unless the call has
\* already returned, it returns the error.
FetchFail(c, i, failure) ==
    /\ c \in 1..received
    /\ i \in DOMAIN calls[c].fetches
    /\ calls[c].fetches[i].state = "pending"
    /\ LET f == calls[c].fetches[i]
           fs == [calls[c].fetches EXCEPT
                     ![i] = [f EXCEPT !.state = "failed", !.failure = failure]]
           returns == calls[c].pc = "waiting"
       IN  calls' = [calls EXCEPT ![c] =
                        [@ EXCEPT !.fetches = fs,
                                  !.resolving = FALSE,
                                  !.pc = IF returns THEN "done" ELSE @,
                                  !.response =
                                      IF ~returns THEN @
                                      ELSE IF calls[c].resolving
                                      THEN ErrorResponse(variant,
                                                         MappingError(FetchError(failure)))
                                      ELSE FailedOutcome(variant, inbox[c].name, failure)]]
    /\ UNCHANGED <<variant, tools, cache, now, ticksLeft, inbox, upstream, received>>

\* a faulty variant of Tick: the core gives up on a call that is waiting
TickWithTimeout(d) ==
    /\ ticksLeft > 0
    /\ now' = now + d
    /\ ticksLeft' = ticksLeft - 1
    /\ calls' = [c \in DOMAIN calls |->
                    IF calls[c].pc = "waiting"
                    THEN [calls[c] EXCEPT !.pc = "done",
                                          !.response = ErrorResponse(variant, <<"Request timed out">>)]
                    ELSE calls[c]]
    /\ UNCHANGED <<variant, tools, cache, inbox, upstream, received>>

\* Time passes.
Tick(d) ==
    /\ ticksLeft > 0
    /\ now' = now + d
    /\ ticksLeft' = ticksLeft - 1
    /\ UNCHANGED <<variant, tools, cache, inbox, upstream, received, calls>>

Next ==
    \/ \E c \in 1..Len(inbox) : Receive(c)
    \/ \E c \in 1..Len(inbox) : \E i \in 1..2 : \E body \in Answers(upstream).bodies : FetchOk(c, i, body)
    \/ \E c \in 1..Len(inbox) : \E i \in 1..2 : \E failure \in Answers(upstream).failures : FetchFail(c, i, failure)
    \/ \E d \in TickDeltas : Tick(d)

----------------------------------------------------------------------------
(* Specifications *)

InitWith(requests, answers, ticks) ==
    /\ variant \in Variants
    /\ tools = ToolList(variant)
    /\ cache = [u \in {} |-> NoData]
    /\ now = 0
    /\ ticksLeft = ticks
    /\ inbox \in requests
    /\ upstream = answers
    /\ received = 0
    /\ calls = [c \in 1..Len(inbox) |-> IdleCall]

\* the core: MaxCalls requests, possibly overlapping, over few keys
Init == InitWith([1..MaxCalls -> CoreRequests], "core", MaxTicks)

Spec == Init /\ [][Next]_vars

\* dispatch: one request, of any tool, with any arguments
InitDispatch == InitWith({<<r>> : r \in DispatchRequests}, "dispatch", 1)

SpecDispatch == InitDispatch /\ [][Next]_vars

\* statistics: one get_dref_statistics call over any two results lists
InitStatistics ==
    InitWith({<<Call("get_dref_statistics", NoArgs)>>}, "statistics", 1)

SpecStatistics == InitStatistics /\ [][Next]_vars

\* catalogue: one get_erus_by_type call with a label, over any catalogue
InitCatalogue == InitWith({<<r>> : r \in CatalogueRequests}, "catalogue", 1)

SpecCatalogue == InitCatalogue /\ [][Next]_vars

\* ERU: MaxCalls requests among the ERU tools and the statistics
InitEru == InitWith([1..MaxCalls -> EruRequests], "eru", MaxTicks)

SpecEru == InitEru /\ [][Next]_vars

\* the TTL window: MaxWindowCalls requests of the build that has the ERU
\* tools, among label resolutions and catalogue listings
InitWindow ==
    /\ InitWith([1..MaxWindowCalls -> WindowRequests], "window", MaxTicks)
    /\ variant = "zod"

SpecWindow == InitWindow /\ [][Next]_vars

\* termination: the clock keeps advancing while it can; whether a request is
\* delivered and whether upstream answers a fetch is left to the environment
InitLive == InitWith([1..MaxCalls -> LiveRequests], "eru", 1)

SpecLive ==
    /\ InitLive
    /\ [][Next]_vars
    /\ WF_vars(\E d \in TickDeltas : Tick(d))

----------------------------------------------------------------------------
(* Vocabulary of the properties *)

FiveMinutes == 300000

Ids == 1..Len(inbox)

Started(c) == calls[c].pc # "idle"

Returned(c) == calls[c].pc = "done"

IsCall(c) == inbox[c].method = "tools/call"

IsErrorBody(body) == "isError" \in DOMAIN body /\ body.isError = TRUE

\* a Result Envelope: exactly one content block, of type text
IsEnvelope(body) ==
    /\ "content" \in DOMAIN body
    /\ Len(body.content) = 1
    /\ body.content[1].type = "text"

\* the pieces of the error message of an envelope
MessageOf(body) == body.content[1].text.value

Pieces(message) == {message[k] : k \in DOMAIN message}

Succeeded(c) ==
    /\ Returned(c)
    /\ IsEnvelope(calls[c].response.body)
    /\ ~IsErrorBody(calls[c].response.body)

\* the requests of a call that went upstream
Issued(c) == {i \in DOMAIN calls[c].fetches : calls[c].fetches[i].state # "hit"}

Urls(c) == [i \in DOMAIN calls[c].fetches |-> calls[c].fetches[i].url]

SameOperation(a, b) ==
    /\ IsCall(a) /\ IsCall(b)
    /\ inbox[a].name = inbox[b].name
    /\ Urls(a) = Urls(b)

\* the query of a URL: the values given to a parameter name, in order
RECURSIVE ValuesOf(_, _, _)
ValuesOf(url, name, k) ==
    IF k + 1 > Len(url) THEN <<>>
    ELSE IF url[k] \in {"?", "&"} /\ url[k + 1] = name /\ k + 2 <= Len(url) /\ url[k + 2] = "="
         THEN LET ends == {e \in (k + 3)..Len(url) : url[e] = "&"}
                  stop == IF ends = {} THEN Len(url) + 1
                          ELSE CHOOSE e \in ends : \A e2 \in ends : e <= e2
              IN  <<SubSeq(url, k + 3, stop - 1)>> \o ValuesOf(url, name, k + 1)
         ELSE ValuesOf(url, name, k + 1)

QueryValues(url, name) == ValuesOf(url, name, 1)

\* the number a decimal numeral denotes (-1 if it is not a numeral)
DigitValue(ch) ==
    IF \E d \in 0..9 : DigitChar[d + 1] = ch
    THEN CHOOSE d \in 0..9 : DigitChar[d + 1] = ch
    ELSE 0 - 1

IsNumeral(chars) ==
    /\ chars # <<>>
    /\ \A k \in DOMAIN chars : DigitValue(chars[k]) >= 0
    /\ (Len(chars) > 1 => chars[1] # "0")

RECURSIVE NumeralValue(_)
NumeralValue(chars) ==
    IF chars = <<>> THEN 0
    ELSE 10 * NumeralValue(SubSeq(chars, 1, Len(chars) - 1))
         + DigitValue(chars[Len(chars)])

\* the URL carries name=<n> exactly once, as the decimal numeral of n
Carries(url, name, n) ==
    /\ Len(QueryValues(url, name)) = 1
    /\ IsNumeral(QueryValues(url, name)[1])
    /\ NumeralValue(QueryValues(url, name)[1]) = n

----------------------------------------------------------------------------
(* Properties of the cache *)

\* call a fetched every request of its operation and stored each answer,
\* returned successfully, and call b of the same operation was delivered
\* after that, less than five minutes after each answer was stored
Repeats(a, b) ==
    /\ a \in calls[b].after
    /\ Started(b)
    /\ Succeeded(a)
    /\ calls[a].fetches # <<>>
    /\ SameOperation(a, b)
    /\ \A i \in DOMAIN calls[a].fetches :
          /\ calls[a].fetches[i].state = "ok"
          /\ calls[b].at - calls[a].fetches[i].storedAt < FiveMinutes

\* C1: when a call succeeds and the same operation with the same effective
\* arguments is called again after it returned, less than five minutes after
\* the entry was stored, the second call issues no upstream request (one
\* request per key for the two calls together) and returns the payload the
\* first call stored.
C1_RepeatWithinTTLIsServedFromCache ==
    \A a \in Ids : \A b \in Ids :
        Repeats(a, b) =>
            /\ Issued(b) = {}
            /\ Cardinality(Issued(a)) + Cardinality(Issued(b)) = Len(calls[a].fetches)
            /\ Returned(b)
            /\ \A i \in DOMAIN calls[b].fetches :
                  calls[b].fetches[i].seenBy = a =>
                      calls[b].fetches[i].data = calls[a].fetches[i].data
            /\ (\A i \in DOMAIN calls[b].fetches : calls[b].fetches[i].seenBy = a)
                  => calls[b].response = calls[a].response

C1_Witness ==
    \E a \in Ids : \E b \in Ids :
        /\ Repeats(a, b)
        /\ calls[b].at - calls[a].fetches[1].storedAt = FiveMinutes - 1
        /\ calls[b].fetches[1].seenBy = a
        /\ calls[b].fetches[1].state = "hit"
        /\ calls[b].response = calls[a].response

\* C2: an entry is used only while now - timestamp < 5 minutes; a lookup at
\* now - timestamp >= 5 minutes is a miss that goes upstream, and its answer
\* overwrites the entry with the new payload and a new timestamp.
C2_StaleEntryIsAMiss ==
    \A c \in Ids : \A i \in DOMAIN calls[c].fetches :
        LET f == calls[c].fetches[i]
        IN  /\ f.state = "hit" => (f.seenBy # 0 /\ f.seenAge < FiveMinutes)
            /\ (f.seenBy # 0 /\ f.seenAge >= FiveMinutes) => f.state # "hit"
            /\ f.state = "ok" =>
                  /\ f.url \in DOMAIN cache
                  /\ cache[f.url].timestamp >= f.storedAt
                  /\ cache[f.url].by = c =>
                        /\ cache[f.url].data = f.data
                        /\ cache[f.url].timestamp = f.storedAt
                  /\ f.seenBy # 0 => f.storedAt > calls[c].at - f.seenAge

C2_Witness ==
    \E c \in Ids : \E i \in DOMAIN calls[c].fetches :
        LET f == calls[c].fetches[i]
        IN  /\ f.seenBy \notin {0, c}
            /\ f.seenAge = FiveMinutes
            /\ f.state = "ok"
            /\ cache[f.url].by = c
            /\ cache[f.url].timestamp = f.storedAt
            /\ cache[f.url].data # calls[f.seenBy].fetches[i].data

\* every cache entry is the answer of a successful fetch of its key
EntriesComeFromAnswers ==
    \A url \in DOMAIN cache :
        \E i \in DOMAIN calls[cache[url].by].fetches :
            LET f == calls[cache[url].by].fetches[i]
            IN  /\ f.url = url
                /\ f.state = "ok"
                /\ f.data = cache[url].data
                /\ f.storedAt = cache[url].timestamp

\* a step in which a fetch fails
FailureStep ==
    \E c \in Ids : \E i \in DOMAIN calls[c].fetches :
        /\ calls[c].fetches[i].state = "pending"
        /\ calls'[c].fetches[i].state = "failed"

\* C4: no negative caching: a failed fetch (non-2xx, network failure or
\* unparsable body) leaves the cache exactly as it was, no entry created and
\* a stale entry kept with its value and timestamp, so that every entry is
\* the answer of a successful fetch.
C4_NoNegativeCaching ==
    []EntriesComeFromAnswers /\ [][FailureStep => cache' = cache]_vars

C4_Witness ==
    \E c \in Ids : \E i \in DOMAIN calls[c].fetches :
        LET f == calls[c].fetches[i]
        IN  /\ f.state = "failed"
            /\ f.seenBy # 0
            /\ f.seenAge >= FiveMinutes
            /\ cache[f.url].by = f.seenBy
            /\ calls[c].at - cache[f.url].timestamp = f.seenAge

----------------------------------------------------------------------------
(* Properties of the dispatcher *)

\* C3: whatever the tool name, the arguments and the upstream outcome, a
\* call completes by returning a Result Envelope without a transport-level
\* fault, and a failure is an envelope with isError = true and one text
\* block holding the message.
C3_EveryCallReturnsAnEnvelope ==
    \A c \in Ids :
        (IsCall(c) /\ Returned(c)) =>
            /\ calls[c].response.status = 200
            /\ IsEnvelope(calls[c].response.body)
            /\ calls[c].response.body.content[1].text.kind = "message"
                  => IsErrorBody(calls[c].response.body)

\* the tools of a build that take a limit
TakesLimit(v, name) ==
    name \in Registry(v) /\ name # "get_dref_statistics"
    /\ name \notin {"get_country_profile", "get_eru_types"}

OutOfRange(limit) == limit > 1000 \/ limit < 1

\* C5: a call of a tool that takes a limit with limit > 1000 or limit < 1
\* fails with a validation error before any upstream request, the cache
\* untouched.
C5_LimitOutOfRangeIsRejected ==
    \A c \in Ids :
        (/\ IsCall(c) /\ Started(c)
         /\ TakesLimit(variant, inbox[c].name)
         /\ Has(inbox[c].args, "limit")
         /\ OutOfRange(inbox[c].args["limit"])) =>
            /\ calls[c].fetches = <<>>
            /\ Returned(c)
            /\ IsErrorBody(calls[c].response.body)

\* a call of a name that is not in the registry
UnknownCall(c) == IsCall(c) /\ inbox[c].name \notin Registry(variant)

\* a step in which such a call is delivered
UnknownCallStep ==
    \E c \in Ids : UnknownCall(c) /\ calls[c].pc = "idle" /\ calls'[c].pc # "idle"

UnknownToolIsAnError ==
    /\ Range(tools) = Registry(variant)
    /\ \A c \in Ids :
          (UnknownCall(c) /\ Started(c)) =>
              /\ Returned(c)
              /\ IsEnvelope(calls[c].response.body)
              /\ IsErrorBody(calls[c].response.body)
              /\ inbox[c].name \in Pieces(MessageOf(calls[c].response.body))
              /\ calls[c].fetches = <<>>

\* C6: a call of a name that is not in the registry returns an envelope
\* with isError = true whose message names the tool; no upstream request is
\* issued, and the tool list and the cache are the same after as before.
C6_UnknownToolIsAnErrorEnvelope ==
    []UnknownToolIsAnError
    /\ [][UnknownCallStep => (cache' = cache /\ tools' = tools)]_vars

C6_Witness ==
    \E c \in Ids :
        /\ variant = "stdio"
        /\ inbox[c].name = "get_unknown_tool"
        /\ Returned(c)
        /\ MessageOf(calls[c].response.body) = <<"Error: ", "Unknown tool: ", "get_unknown_tool">>

----------------------------------------------------------------------------
(* Properties of the statistics *)

\* what a field of an operation contributes: nothing when it is missing,
\* null or zero
Contribution(op, f) ==
    IF f \notin DOMAIN op THEN 0
    ELSE IF op[f] = <<>> THEN 0
    ELSE op[f][1]

RECURSIVE SumOf(_, _, _)
SumOf(ops, f, n) ==
    IF n = 0 THEN 0 ELSE SumOf(ops, f, n - 1) + Contribution(ops[n], f)

Total(completed, ongoing, f) ==
    SumOf(completed.results, f, Len(completed.results))
    + SumOf(ongoing.results, f, Len(ongoing.results))

IsStatistics(c) == IsCall(c) /\ inbox[c].name = "get_dref_statistics"

StatisticsOf(c) == calls[c].response.body.content[1].text.value

\* C7: get_dref_statistics returns total_operations = |completed| +
\* |ongoing|, total_requested and total_funded = the sums of the amounts
\* over both lists, active_operations = |ongoing|; a missing, null or zero
\* amount contributes 0.
C7_StatisticsAreTheSums ==
    \A c \in Ids :
        (IsStatistics(c) /\ Succeeded(c)) =>
            LET completed == calls[c].fetches[1].data
                ongoing == calls[c].fetches[2].data
            IN  /\ StatisticsOf(c).total_operations =
                      Len(completed.results) + Len(ongoing.results)
                /\ StatisticsOf(c).total_requested =
                      Total(completed, ongoing, "amount_requested")
                /\ StatisticsOf(c).total_funded =
                      Total(completed, ongoing, "amount_funded")
                /\ StatisticsOf(c).active_operations = Len(ongoing.results)

C7_Witness ==
    \E c \in Ids :
        /\ IsStatistics(c) /\ Succeeded(c)
        /\ calls[c].fetches[1].data.results =
              <<[amount_requested |-> <<>>, amount_funded |-> <<0>>], [amount_funded |-> <<200>>]>>
        /\ calls[c].fetches[2].data.results =
              <<[amount_requested |-> <<100>>, amount_funded |-> <<50>>]>>
        /\ StatisticsOf(c) =
              [total_operations |-> 3, total_requested |-> 100,
               total_funded |-> 250, active_operations |-> 1]

\* C8: get_dref_statistics is a join: it returns statistics only once both
\* fetches have their data, and an error as soon as one of them failed,
\* never statistics of one list only, whichever fetch finishes first.
C8_StatisticsJoinBothFetches ==
    \A c \in Ids :
        (IsStatistics(c) /\ Started(c)) =>
            LET fs == calls[c].fetches
            IN  /\ Len(fs) = 2
                /\ Succeeded(c) =>
                      /\ \A i \in 1..2 : fs[i].state \in {"hit", "ok"}
                      /\ StatisticsOf(c).total_operations =
                            Len(fs[1].data.results) + Len(fs[2].data.results)
                      /\ StatisticsOf(c).active_operations = Len(fs[2].data.results)
                /\ (\E i \in 1..2 : fs[i].state = "failed") =>
                      (Returned(c) /\ IsErrorBody(calls[c].response.body))
                /\ Returned(c) =>
                      \/ \A i \in 1..2 : fs[i].state \in {"hit", "ok"}
                      \/ \E i \in 1..2 : fs[i].state = "failed"

C8_Witness ==
    \E c \in Ids :
        /\ IsStatistics(c) /\ Returned(c)
        /\ calls[c].fetches[1].state = "failed"
        /\ calls[c].fetches[2].state = "ok"
        /\ IsErrorBody(calls[c].response.body)
        /\ calls[c].fetches[2].url \in DOMAIN cache

----------------------------------------------------------------------------
(* Properties of the request descriptors *)

PaginatedTools == DOMAIN ListPath

\* C9: for a paginated listing tool, a limit in [1, 1000] and an offset >= 0
\* supplied by the caller appear in the request descriptor unchanged:
\* exactly limit=<limit> and offset=<offset>.
C9_LimitAndOffsetAreVerbatim ==
    \A c \in Ids :
        (/\ IsCall(c) /\ Started(c)
         /\ inbox[c].name \in PaginatedTools \cap Registry(variant)
         /\ Has(inbox[c].args, "limit") /\ ~OutOfRange(inbox[c].args["limit"])
         /\ Has(inbox[c].args, "offset") /\ inbox[c].args["offset"] >= 0) =>
            /\ Len(calls[c].fetches) = 1
            /\ Carries(calls[c].fetches[1].url, "limit", inbox[c].args["limit"])
            /\ Carries(calls[c].fetches[1].url, "offset", inbox[c].args["offset"])

C9_Witness ==
    \E c \in Ids :
        /\ IsCall(c) /\ Started(c)
        /\ variant = "zod"
        /\ inbox[c].name = "get_field_reports"
        /\ Has(inbox[c].args, "limit") /\ inbox[c].args["limit"] = 999
        /\ Has(inbox[c].args, "offset") /\ inbox[c].args["offset"] = 1
        /\ QueryValues(calls[c].fetches[1].url, "limit") = <<<<"9", "9", "9">>>>
        /\ QueryValues(calls[c].fetches[1].url, "offset") = <<<<"1">>>>

\* C10: when the caller omits limit, the descriptor of a tool that takes a
\* limit carries limit=50; when the caller omits offset, the descriptor of
\* a tool that takes an offset carries offset=0.
C10_OmittedLimitIs50 ==
    \A c \in Ids :
        (/\ IsCall(c) /\ Started(c)
         /\ TakesLimit(variant, inbox[c].name)
         /\ Len(calls[c].fetches) = 1) =>
            /\ ~Has(inbox[c].args, "limit") =>
                  Carries(calls[c].fetches[1].url, "limit", 50)
            /\ (inbox[c].name \in PaginatedTools /\ ~Has(inbox[c].args, "offset")) =>
                  Carries(calls[c].fetches[1].url, "offset", 0)

----------------------------------------------------------------------------
(* Properties of the ERU type resolution *)

\* a get_erus_by_type call with a non-numeric label, on the build that has
\* the tool
IsByLabel(c) ==
    /\ IsCall(c)
    /\ variant = "zod"
    /\ inbox[c].name = "get_erus_by_type"
    /\ Has(inbox[c].args, "eru_type")
    /\ inbox[c].args["eru_type"].type = "string"
    /\ \E k \in DOMAIN inbox[c].args["eru_type"].chars :
          DigitValue(inbox[c].args["eru_type"].chars[k]) < 0

LabelOf(c) == inbox[c].args["eru_type"].chars

\* the call obtained the type catalogue, an array of entries
HasCatalogue(c) ==
    /\ Len(calls[c].fetches) >= 1
    /\ calls[c].fetches[1].url = <<baseUrl, "/erutype/">>
    /\ calls[c].fetches[1].state \in {"hit", "ok"}
    /\ "array" \in DOMAIN calls[c].fetches[1].data

CatalogueOf(c) == calls[c].fetches[1].data.array

\* the alias table: alias name -> the substrings that earn it
AliasTriggers ==
    [wash |-> {wash}, logistics |-> {logistics}, relief |-> {relief},
     hospital |-> {hospital}, clinic |-> {clinic},
     telecom |-> {telecom, it}, it |-> {telecom, it}]

AliasChars ==
    [wash |-> wash, logistics |-> logistics, relief |-> relief, hospital |-> hospital,
     clinic |-> clinic, telecom |-> telecom, it |-> it]

Earns(entry, alias) ==
    \E sub \in AliasTriggers[alias] : includes(toLowerCase(entry.label), sub)

\* the labels (lower-cased) and the aliases a catalogue gives
KnownLabels(entries) == {toLowerCase(entries[k].label) : k \in DOMAIN entries}

KnownAliases(entries) ==
    {AliasChars[a] : a \in {b \in DOMAIN AliasTriggers :
                                \E k \in DOMAIN entries : Earns(entries[k], b)}}

\* the listing requests of a call: eru/?type=...
ListingRequests(c) ==
    {i \in DOMAIN calls[c].fetches :
        /\ Len(calls[c].fetches[i].url) >= 4
        /\ SubSeq(calls[c].fetches[i].url, 2, 4) = <<"/eru/", "?", "type">>}

\* C11: get_erus_by_type with a non-numeric label that, lower-cased, is no
\* label and no alias of the catalogue fails with an 'Unknown ERU type'
\* error that names the attempted value and lists the known labels and
\* aliases, and issues no ERU listing request.
C11_UnknownLabelIsRejected ==
    \A c \in Ids :
        (/\ IsByLabel(c)
         /\ HasCatalogue(c)
         /\ toLowerCase(LabelOf(c)) \notin
                KnownLabels(CatalogueOf(c)) \cup KnownAliases(CatalogueOf(c))) =>
            /\ Returned(c)
            /\ IsErrorBody(calls[c].response.body)
            /\ LET message == MessageOf(calls[c].response.body)
               IN  /\ includes(message, <<"Unknown ERU type: ">> \o LabelOf(c))
                   /\ \A key \in KnownLabels(CatalogueOf(c)) \cup KnownAliases(CatalogueOf(c)) :
                          includes(message, key)
            /\ ListingRequests(c) = {}

\* the entries of a catalogue whose label contains 'wash', whatever the case
WashEntries(entries) ==
    {k \in DOMAIN entries : includes(toLowerCase(entries[k].label), wash)}

FirstWashKey(entries) ==
    entries[CHOOSE k \in WashEntries(entries) : \A j \in WashEntries(entries) : k <= j].key

\* C12: for every catalogue with at least one entry whose label contains
\* 'wash' (case-insensitively), get_erus_by_type('wash') requests the
\* listing of the key of the first such entry in catalogue order, whatever
\* that key (0 included) and whatever entries follow.
C12_WashIsTheFirstWashEntry ==
    \A c \in Ids :
        (/\ IsByLabel(c)
         /\ LabelOf(c) = wash
         /\ HasCatalogue(c)
         /\ WashEntries(CatalogueOf(c)) # {}) =>
            /\ Len(calls[c].fetches) = 2
            /\ Carries(calls[c].fetches[2].url, "type", FirstWashKey(CatalogueOf(c)))

----------------------------------------------------------------------------
(* Properties of the validation of arguments *)

IsoCall(c) ==
    /\ IsCall(c)
    /\ inbox[c].name = "search_drefs_by_country"
    /\ Has(inbox[c].args, "country_iso")

\* C13: search_drefs_by_country with a country_iso shorter than 2 or longer
\* than 3 characters fails validation without an upstream request; with a
\* code of 2 or 3 characters it requests a descriptor that carries
\* country__iso=<that code>.
C13_CountryIsoLengthIsValidated ==
    \A c \in Ids :
        (IsoCall(c) /\ Started(c)) =>
            LET iso == inbox[c].args["country_iso"]
            IN  /\ (Len(iso) < 2 \/ Len(iso) > 3) =>
                      /\ calls[c].fetches = <<>>
                      /\ Returned(c)
                      /\ IsErrorBody(calls[c].response.body)
                /\ (/\ Len(iso) \in 2..3
                    /\ Has(inbox[c].args, "limit") => ~OutOfRange(inbox[c].args["limit"])) =>
                      /\ Len(calls[c].fetches) = 1
                      /\ QueryValues(calls[c].fetches[1].url, "country__iso") = <<iso>>

\* 4 digits, '-', 2 digits, '-', 2 digits, and nothing else
IsIsoDate(s) ==
    /\ Len(s) = 10
    /\ s[5] = "-" /\ s[8] = "-"
    /\ \A k \in {1, 2, 3, 4, 6, 7, 9, 10} : DigitValue(s[k]) >= 0

DatesAccepted(args) ==
    /\ Has(args, "start_date") /\ IsIsoDate(args["start_date"])
    /\ Has(args, "end_date") /\ IsIsoDate(args["end_date"])

\* C14: search_operations_by_date_range goes upstream only if start_date
\* and end_date are both present and each is 4 digits, '-', 2 digits, '-',
\* 2 digits; any other value fails validation before any request; accepted
\* dates appear unchanged in the descriptor as disaster_start_date__gte and
\* disaster_start_date__lte.
C14_DateRangeIsValidatedByPattern ==
    \A c \in Ids :
        (IsCall(c) /\ Started(c) /\ inbox[c].name = "search_operations_by_date_range") =>
            LET args == inbox[c].args
            IN  /\ ~DatesAccepted(args) =>
                      /\ calls[c].fetches = <<>>
                      /\ Returned(c)
                      /\ IsErrorBody(calls[c].response.body)
                /\ calls[c].fetches # <<>> =>
                      /\ DatesAccepted(args)
                      /\ Len(calls[c].fetches) = 1
                      /\ QueryValues(calls[c].fetches[1].url, "disaster_start_date__gte")
                            = <<args["start_date"]>>
                      /\ QueryValues(calls[c].fetches[1].url, "disaster_start_date__lte")
                            = <<args["end_date"]>>
                /\ (/\ variant = "zod"
                    /\ DatesAccepted(args)
                    /\ Has(args, "limit") => ~OutOfRange(args["limit"])) =>
                      calls[c].fetches # <<>>

C14_Witness ==
    \E c \in Ids :
        /\ variant = "zod"
        /\ IsCall(c) /\ Succeeded(c)
        /\ inbox[c].name = "search_operations_by_date_range"
        /\ inbox[c].args["start_date"] = <<"2", "0", "2", "3", "-", "0", "5", "-", "1", "4">>
        /\ QueryValues(calls[c].fetches[1].url, "disaster_start_date__gte")
              = <<<<"2", "0", "2", "3", "-", "0", "5", "-", "1", "4">>>>
        /\ QueryValues(calls[c].fetches[1].url, "disaster_start_date__lte")
              = <<<<"2", "0", "2", "3", "-", "0", "5", "-", "1", "4">>>>

----------------------------------------------------------------------------
(* Properties of the registry and of the envelopes *)

IsList(c) == inbox[c].method = "tools/list"

\* the names of the descriptors of a list are pairwise distinct
NamesDistinct(list) ==
    \A j \in DOMAIN list : \A k \in DOMAIN list : j # k => list[j] # list[k]

ListsAgree ==
    /\ NamesDistinct(tools)
    /\ \A c \in Ids :
          (IsList(c) /\ Returned(c)) =>
              /\ calls[c].response.status = 200
              /\ calls[c].response.body.tools = tools
              /\ NamesDistinct(calls[c].response.body.tools)
    /\ \A a \in Ids : \A b \in Ids :
          (IsList(a) /\ Returned(a) /\ IsList(b) /\ Returned(b)) =>
              calls[a].response = calls[b].response

\* C15: the registry is fixed after startup: after any sequence of list and
\* call requests, successful or failed, list returns the same descriptors,
\* with pairwise distinct names, whatever its arguments and whatever the
\* cache holds.
C15_RegistryIsFixed == []ListsAgree /\ [][tools' = tools]_vars

C15_Witness ==
    \E a \in Ids : \E b \in Ids :
        /\ IsCall(a) /\ Succeeded(a)
        /\ a \in calls[b].after
        /\ DOMAIN cache # {}
        /\ IsList(b) /\ Returned(b)
        /\ DOMAIN inbox[b].args # {}
        /\ Len(calls[b].response.body.tools) = 7

\* the call's handler ran to its end without an error: every request it
\* needed was answered and the answers had the shape the handler reads
RanToTheEnd(c) ==
    /\ IsCall(c) /\ Returned(c)
    /\ calls[c].fetches # <<>>
    /\ \A i \in DOMAIN calls[c].fetches : calls[c].fetches[i].state \in {"hit", "ok"}
    /\ IsStatistics(c) =>
          \A i \in DOMAIN calls[c].fetches : "results" \in DOMAIN calls[c].fetches[i].data
    /\ inbox[c].name = "get_erus_by_type" => ListingRequests(c) # {}

\* what the handler computed
PayloadOf(c) ==
    IF IsStatistics(c)
    THEN LET completed == calls[c].fetches[1].data
             ongoing == calls[c].fetches[2].data
         IN  [total_operations |-> Len(completed.results) + Len(ongoing.results),
              total_requested |-> Total(completed, ongoing, "amount_requested"),
              total_funded |-> Total(completed, ongoing, "amount_funded"),
              active_operations |-> Len(ongoing.results)]
    ELSE calls[c].fetches[Len(calls[c].fetches)].data

\* C16: every successful call returns a Result Envelope that is not flagged
\* as an error (isError absent or false) and has exactly one content block,
\* of type text, whose text is the JSON serialization of the handler's
\* payload.
C16_SuccessIsOneJsonTextBlock ==
    \A c \in Ids :
        RanToTheEnd(c) =>
            LET body == calls[c].response.body
            IN  /\ "content" \in DOMAIN body
                /\ Len(body.content) = 1
                /\ body.content[1].type = "text"
                /\ body.content[1].text = [kind |-> "json", value |-> PayloadOf(c)]
                /\ "isError" \in DOMAIN body => body.isError = FALSE

C16_Witness ==
    \E c \in Ids :
        /\ RanToTheEnd(c)
        /\ inbox[c].name = "get_erus_by_type"
        /\ Len(calls[c].fetches) = 2
        /\ calls[c].response.body.content[1].text.kind = "json"
        /\ calls[c].response.body.content[1].text.value = calls[c].fetches[2].data
        /\ "isError" \notin DOMAIN calls[c].response.body

----------------------------------------------------------------------------
(* Properties of failed calls *)

\* the call ended in an upstream HTTP or transport error
UpstreamFailed(c) ==
    /\ IsCall(c)
    /\ \E i \in DOMAIN calls[c].fetches : calls[c].fetches[i].state = "failed"

\* the cache entries last written by call c
WrittenBy(c) == {key \in DOMAIN cache : cache[key].by = c}

\* the claim as stated: a call that ends in an upstream HTTP or transport
\* error has cached nothing, also when it issues more than one request
C17_FailedCallCachesNothing ==
    \A c \in Ids : UpstreamFailed(c) => WrittenBy(c) = {}

\* C17 (amended): a call that ends in an upstream HTTP or transport error
\* returns an error and caches nothing for the request that failed, and
\* nothing at all when that was its only request; of a call with more than
\* one request (get_dref_statistics, get_erus_by_type with a label) the
\* cache keeps the answers of the requests that succeeded and the type
\* mapping built from the catalogue.
C17_FailedRequestCachesNothing ==
    \A c \in Ids :
        UpstreamFailed(c) =>
            LET fs == calls[c].fetches
            IN  /\ Returned(c)
                /\ IsErrorBody(calls[c].response.body)
                /\ \A i \in DOMAIN fs : fs[i].state = "failed" => fs[i].url \notin WrittenBy(c)
                /\ Len(fs) = 1 => WrittenBy(c) = {}
                /\ \A key \in WrittenBy(c) :
                      \/ \E i \in DOMAIN fs :
                            /\ fs[i].url = key
                            /\ fs[i].state = "ok"
                            /\ fs[i].data = cache[key].data
                      \/ /\ key = <<"eru_type_mapping">>
                         /\ IsByLabel(c)
                         /\ HasCatalogue(c)

C17_Witness ==
    \E c \in Ids :
        /\ IsByLabel(c)
        /\ HasCatalogue(c)
        /\ Len(calls[c].fetches) = 2
        /\ calls[c].fetches[1].state = "ok"
        /\ calls[c].fetches[2].state = "failed"
        /\ Returned(c)
        /\ IsErrorBody(calls[c].response.body)
        /\ WrittenBy(c) = {calls[c].fetches[1].url, <<"eru_type_mapping">>}

\* the call returned an error
Failed(c) == IsCall(c) /\ Returned(c) /\ IsErrorBody(calls[c].response.body)

\* within a call no request is issued twice, and once a call has returned
\* an error the only requests it may still have outstanding are those it
\* had issued together with the one that failed
IssuedOnce ==
    \A c \in Ids :
        LET fs == calls[c].fetches
        IN  /\ \A i \in DOMAIN fs : \A j \in DOMAIN fs : i # j => fs[i].url # fs[j].url
            /\ Failed(c) =>
                  \A i \in DOMAIN fs :
                      fs[i].state = "pending" => \E j \in DOMAIN fs : fs[j].state = "failed"

\* a step after which a call that had returned an error has a request it
\* did not have, or has a settled request pending again
IssuesAfterError ==
    \E c \in Ids :
        /\ Failed(c)
        /\ \/ Len(calls'[c].fetches) # Len(calls[c].fetches)
           \/ calls'[c].pc # "done"
           \/ \E i \in DOMAIN calls[c].fetches :
                 /\ calls[c].fetches[i].state # "pending"
                 /\ calls'[c].fetches[i].state = "pending"

\* C18: no error is retried: within one call each distinct upstream request
\* is issued at most once, and after a validation, unknown-tool, HTTP,
\* transport or ERU-resolution error the call has terminated and issues no
\* further upstream request.
C18_NoErrorIsRetried == []IssuedOnce /\ [][~IssuesAfterError]_vars

C18_Witness ==
    \E c \in Ids :
        /\ IsByLabel(c)
        /\ Failed(c)
        /\ Len(calls[c].fetches) = 1
        /\ calls[c].fetches[1].state = "failed"
        /\ ListingRequests(c) = {}

----------------------------------------------------------------------------
(* Properties of overlapping calls *)

\* the lookup found the key missing or stale
Missed(f) == f.seenBy = 0 \/ f.seenAge >= FiveMinutes

\* every call that finds the key missing or stale has its own request;
\* the cache is a map of well-formed entries; a call returns the payload of
\* its own request
OwnFetchOwnPayload ==
    /\ \A c \in Ids : \A i \in DOMAIN calls[c].fetches :
          Missed(calls[c].fetches[i]) => calls[c].fetches[i].state \in {"pending", "ok", "failed"}
    /\ \A key \in DOMAIN cache :
          /\ cache[key].data # [none |-> TRUE]
          /\ cache[key].timestamp \in 0..now
          /\ cache[key].by \in Ids
    /\ \A c \in Ids :
          (Succeeded(c) /\ Len(calls[c].fetches) = 1 /\ calls[c].fetches[1].state = "ok") =>
              calls[c].response.body.content[1].text.value = calls[c].fetches[1].data

\* a step in which a request is answered leaves its answer under the key,
\* whatever was there
AnswerIsWritten ==
    \A c \in Ids : \A i \in DOMAIN calls[c].fetches :
        (calls[c].fetches[i].state = "pending" /\ calls'[c].fetches[i].state = "ok") =>
            /\ calls[c].fetches[i].url \in DOMAIN cache'
            /\ cache'[calls[c].fetches[i].url].data = calls'[c].fetches[i].data
            /\ cache'[calls[c].fetches[i].url].timestamp = now
            /\ cache'[calls[c].fetches[i].url].by = c

\* C19: when calls for the same key overlap while the key is missing or
\* stale, each issues its own request and each successful one writes the
\* key; in every interleaving the cache stays a map with one well-formed
\* entry per key, the entry that remains is the one written last, and each
\* call returns the payload of its own request.
C19_OverlappingMissesEachFetchAndWrite ==
    []OwnFetchOwnPayload /\ [][AnswerIsWritten]_vars

C19_Witness ==
    \E a \in Ids : \E b \in Ids :
        /\ a # b
        /\ Succeeded(a) /\ Succeeded(b)
        /\ Len(calls[a].fetches) = 1 /\ Len(calls[b].fetches) = 1
        /\ calls[a].fetches[1].url = calls[b].fetches[1].url
        /\ calls[a].fetches[1].seenBy = 0 /\ calls[b].fetches[1].seenBy = 0
        /\ calls[a].fetches[1].state = "ok" /\ calls[b].fetches[1].state = "ok"
        /\ calls[a].fetches[1].data # calls[b].fetches[1].data
        /\ cache[calls[a].fetches[1].url].by = b
        /\ cache[calls[a].fetches[1].url].data = calls[b].fetches[1].data
        /\ calls[a].response.body.content[1].text.value = calls[a].fetches[1].data

----------------------------------------------------------------------------
(* Properties of required parameters *)

RequiredParameter ==
    [search_drefs_by_country |-> "country_iso",
     search_drefs_by_disaster_type |-> "disaster_type"]

\* a call of a search tool without its required parameter, or with the
\* empty string for it
LacksRequired(c) ==
    /\ IsCall(c)
    /\ inbox[c].name \in DOMAIN RequiredParameter
    /\ \/ RequiredParameter[inbox[c].name] \notin DOMAIN inbox[c].args
       \/ inbox[c].args[RequiredParameter[inbox[c].name]] = <<>>

RequiredIsReported ==
    \A c \in Ids :
        (LacksRequired(c) /\ Started(c)) =>
            /\ Returned(c)
            /\ IsEnvelope(calls[c].response.body)
            /\ IsErrorBody(calls[c].response.body)
            /\ RequiredParameter[inbox[c].name] \in Pieces(MessageOf(calls[c].response.body))
            /\ calls[c].fetches = <<>>

\* a step in which such a call is delivered
LacksRequiredStep ==
    \E c \in Ids : LacksRequired(c) /\ calls[c].pc = "idle" /\ calls'[c].pc # "idle"

\* C20: a call that omits a required parameter (country_iso of
\* search_drefs_by_country, disaster_type of search_drefs_by_disaster_type)
\* or passes the empty string for it returns an envelope with isError =
\* true that names the parameter, issues no upstream request and leaves
\* the cache unchanged.
C20_RequiredParameterIsReported ==
    []RequiredIsReported /\ [][LacksRequiredStep => cache' = cache]_vars

C20_Witness ==
    \E c \in Ids :
        /\ variant = "stdio"
        /\ inbox[c].name = "search_drefs_by_disaster_type"
        /\ "disaster_type" \in DOMAIN inbox[c].args
        /\ inbox[c].args["disaster_type"] = <<>>
        /\ Returned(c)
        /\ MessageOf(calls[c].response.body) =
              <<"Error: ", "disaster_type", " parameter is required">>
        /\ calls[c].fetches = <<>>

----------------------------------------------------------------------------
(* Properties of the error texts *)

\* the requests of a call that were rejected
Rejected(c) == {i \in DOMAIN calls[c].fetches : calls[c].fetches[i].state = "failed"}

\* every request of the call that was rejected was answered with a non-2xx
\* status, and at least one was
EndedByStatus(c) ==
    /\ IsCall(c)
    /\ Rejected(c) # {}
    /\ \A i \in Rejected(c) : calls[c].fetches[i].failure.kind = "http"

\* the text of the envelope names the status: ... HTTP <status>: <reason>
NamesStatus(body, failure) ==
    /\ IsEnvelope(body)
    /\ body.content[1].text.kind = "message"
    /\ includes(MessageOf(body),
                <<"HTTP ">> \o NumberToString(failure.status) \o <<": ", failure.message>>)

----------------------------------------------------------------------------
(* Properties of the cache over the TTL window *)

\* a step in which a request for the key is answered 2xx
AnsweredStep(key) ==
    \E c \in Ids : \E i \in DOMAIN calls[c].fetches :
        /\ calls[c].fetches[i].url = key
        /\ calls[c].fetches[i].state = "pending"
        /\ calls'[c].fetches[i].state = "ok"

\* a step in which a label resolution that found no fresh mapping obtains
\* the catalogue, from the cache on delivery or from its request
RebuildStep ==
    \E c \in Ids :
        /\ calls'[c].typeMapping.state = "miss"
        /\ calls'[c].fetches # <<>>
        /\ calls'[c].fetches[1].url = <<baseUrl, "/erutype/">>
        /\ \/ calls[c].pc = "idle" /\ calls'[c].fetches[1].state = "hit"
           \/ /\ calls[c].pc # "idle"
              /\ calls[c].fetches[1].state = "pending"
              /\ calls'[c].fetches[1].state = "ok"

\* no step removes a key
KeysAreKept == DOMAIN cache \subseteq DOMAIN cache'

\* the claim as stated: the cache never loses a key, and an entry stays
\* untouched until a successful fetch for the same key overwrites it
C22_EntriesChangeOnlyByTheirFetch ==
    [][/\ KeysAreKept
       /\ \A key \in DOMAIN cache :
             cache'[key] # cache[key] => AnsweredStep(key)]_vars

\* C22 (amended): the cache never loses a key: no operation deletes an
\* entry; the entry of a request descriptor stays untouched, stale or not,
\* until a successful fetch for that descriptor overwrites it, and the
\* entry of the ERU type mapping until the mapping is rebuilt from the
\* catalogue, which may be taken from the cache without any fetch.
C22_EntriesAreNeverRemoved ==
    [][/\ KeysAreKept
       /\ \A key \in DOMAIN cache :
             cache'[key] # cache[key] =>
                 \/ AnsweredStep(key)
                 \/ key = <<"eru_type_mapping">> /\ RebuildStep]_vars

\* a stale mapping was overwritten by a call that issued no catalogue
\* request, while the stale catalogue entry another call had left was
\* overwritten by a fetch
C22_Witness ==
    \E c \in Ids :
        /\ <<"eru_type_mapping">> \in DOMAIN cache
        /\ cache[<<"eru_type_mapping">>].by = c
        /\ calls[c].typeMapping.seenBy \notin {0, c}
        /\ calls[c].typeMapping.seenAge >= FiveMinutes
        /\ calls[c].fetches[1].state = "hit"
        /\ calls[calls[c].fetches[1].seenBy].fetches[1].seenAge >= FiveMinutes

----------------------------------------------------------------------------
(* Properties of the order of the label resolution *)

IsCatalogueRequest(f) == f.url = <<baseUrl, "/erutype/">>

IsEruTypes(c) == IsCall(c) /\ variant = "zod" /\ inbox[c].name = "get_eru_types"

\* the catalogue a label resolution resolved against: its own, or the one
\* of the call that stored the mapping it found
ResolvedAgainst(c) ==
    IF calls[c].typeMapping.state = "hit"
    THEN calls[calls[c].typeMapping.seenBy].fetches[1].data.array
    ELSE calls[c].fetches[1].data.array

\* what the label of the call stands for in that catalogue
ResolvedKey(c) == Get(getERUTypeMapping(ResolvedAgainst(c)), toLowerCase(LabelOf(c)))

\* a call that requests a listing has the catalogue, or found the mapping,
\* and its listing request is the one after that and carries the key
ResolutionComesFirst ==
    \A c \in Ids :
        IsByLabel(c) =>
            /\ calls[c].resolving => ListingRequests(c) = {}
            /\ ListingRequests(c) # {} =>
                  /\ \/ /\ calls[c].typeMapping.state = "hit"
                        /\ ListingRequests(c) = {1}
                     \/ /\ calls[c].typeMapping.state = "miss"
                        /\ HasCatalogue(c)
                        /\ ListingRequests(c) = {2}
                        /\ \A i \in ListingRequests(c) :
                              calls[c].fetches[i].state = "ok" =>
                                  calls[c].fetches[i].storedAt >= calls[c].at
                  /\ \A i \in ListingRequests(c) :
                        QueryValues(calls[c].fetches[i].url, "type") = <<Render(ResolvedKey(c))>>

\* a step in which a call issues its listing request: the catalogue is not
\* awaited any more
ListingStep(c) == ListingRequests(c)' # {} /\ ListingRequests(c) = {}

ListingFollowsCatalogue ==
    \A c \in Ids :
        (IsByLabel(c) /\ ListingStep(c)) =>
            \A i \in DOMAIN calls'[c].fetches :
                IsCatalogueRequest(calls'[c].fetches[i]) =>
                    calls'[c].fetches[i].state \in {"hit", "ok"}

\* the catalogue a label resolution fetched serves get_eru_types
CatalogueIsShared ==
    \A c \in Ids : \A g \in Ids :
        (/\ IsByLabel(c) /\ IsEruTypes(g) /\ Started(g)
         /\ calls[c].typeMapping.state = "miss"
         /\ calls[c].fetches # <<>>
         /\ calls[c].fetches[1].state = "ok"
         /\ calls[g].fetches[1].seenBy = c
         /\ calls[g].at - calls[c].fetches[1].storedAt < FiveMinutes) =>
            /\ Issued(g) = {}
            /\ Succeeded(g)
            /\ calls[g].response.body.content[1].text.value = calls[c].fetches[1].data

\* C23: in get_erus_by_type with a non-numeric label the resolution comes
\* first: the catalogue is obtained (from the cache or by a fetch of
\* erutype/) and the label resolved before the listing request is issued,
\* the listing request carries the resolved key, and the catalogue fetched
\* is stored in the same cache, so that get_eru_types within the TTL issues
\* no fetch.
C23_ResolutionComesFirst ==
    /\ [](ResolutionComesFirst /\ CatalogueIsShared)
    /\ [][ListingFollowsCatalogue]_vars

C23_Witness ==
    \E c \in Ids : \E g \in Ids :
        /\ IsByLabel(c) /\ IsEruTypes(g)
        /\ Len(calls[c].fetches) = 2 /\ Len(calls[g].fetches) = 1
        /\ calls[c].fetches[1].state = "ok"
        /\ QueryValues(calls[c].fetches[2].url, "type") = <<<<"5">>>>
        /\ calls[g].fetches[1].seenBy = c
        /\ calls[g].fetches[1].seenAge = FiveMinutes - 1
        /\ Issued(g) = {}
        /\ Succeeded(g)

----------------------------------------------------------------------------
(* Properties of the ERU type mapping over the TTL window *)

CatalogueRequests_(c) ==
    {i \in DOMAIN calls[c].fetches : IsCatalogueRequest(calls[c].fetches[i])}

\* the call found no fresh mapping, obtained the catalogue and stored the
\* mapping built from it
BuiltMapping(c) ==
    /\ IsByLabel(c)
    /\ calls[c].typeMapping.state = "miss"
    /\ HasCatalogue(c)

\* when it stored the mapping
MappingStoredAt(c) ==
    IF calls[c].fetches[1].state = "ok" THEN calls[c].fetches[1].storedAt ELSE calls[c].at

\* a label resolution delivered after a call had stored the mapping, less
\* than five minutes after that, requests no catalogue and resolves against
\* the mapping it finds
MappingIsReused ==
    \A a \in Ids : \A b \in Ids :
        (/\ BuiltMapping(a) /\ IsByLabel(b) /\ Started(b)
         /\ a \in calls[b].after
         /\ calls[b].at - MappingStoredAt(a) < FiveMinutes) =>
            /\ calls[b].typeMapping.state = "hit"
            /\ CatalogueRequests_(b) = {}
            /\ BuiltMapping(calls[b].typeMapping.seenBy)
            /\ calls[b].typeMapping.data =
                  getERUTypeMapping(CatalogueOf(calls[b].typeMapping.seenBy))
            /\ IF Get(calls[b].typeMapping.data, toLowerCase(LabelOf(b))) = Undefined
               THEN calls[b].fetches = <<>> /\ Failed(b)
               ELSE /\ Len(calls[b].fetches) = 1
                    /\ QueryValues(calls[b].fetches[1].url, "type") =
                          <<Render(Get(calls[b].typeMapping.data, toLowerCase(LabelOf(b))))>>

\* a call whose catalogue request failed stored no mapping, and a label
\* resolution that finds no fresh mapping asks for the catalogue again,
\* upstream unless the catalogue is a fresh entry
FailureStoresNoMapping ==
    /\ \A a \in Ids :
          (IsByLabel(a) /\ calls[a].fetches # <<>> /\ calls[a].fetches[1].state = "failed") =>
              /\ Failed(a)
              /\ WrittenBy(a) = {}
    /\ \A b \in Ids :
          (IsByLabel(b) /\ Started(b) /\ calls[b].typeMapping.state = "miss") =>
              /\ CatalogueRequests_(b) = {1}
              /\ Missed(calls[b].fetches[1]) => calls[b].fetches[1].state # "hit"

\* a step in which the catalogue request of a label resolution fails
CatalogueFailureStep ==
    \E c \in Ids :
        /\ calls[c].resolving
        /\ calls[c].fetches[1].state = "pending"
        /\ calls'[c].fetches[1].state = "failed"

\* C24: the ERU type mapping is built once per TTL window: after a
\* successful label resolution every further get_erus_by_type call with a
\* label made less than TTL after the mapping was stored issues no catalogue
\* fetch and resolves against the stored mapping; a failed catalogue fetch
\* stores no mapping, so the next label call fetches the catalogue again.
C24_MappingIsBuiltOncePerWindow ==
    /\ [](MappingIsReused /\ FailureStoresNoMapping)
    /\ [][CatalogueFailureStep => cache' = cache]_vars

C24_Witness ==
    \E a \in Ids : \E b \in Ids :
        /\ BuiltMapping(a) /\ IsByLabel(b)
        /\ Succeeded(a)
        /\ a \in calls[b].after
        /\ calls[b].at - MappingStoredAt(a) = FiveMinutes - 1
        /\ calls[b].typeMapping.seenBy = a
        /\ Len(calls[b].fetches) = 1
        /\ QueryValues(calls[b].fetches[1].url, "type") = <<<<"5">>>>

\* the second half: the catalogue request failed, the next label call
\* fetched the catalogue again and stored the mapping
RebuiltAfterFailure ==
    \E a \in Ids : \E b \in Ids :
        /\ IsByLabel(a) /\ Failed(a)
        /\ Len(calls[a].fetches) = 1 /\ calls[a].fetches[1].state = "failed"
        /\ a \in calls[b].after
        /\ BuiltMapping(b)
        /\ calls[b].fetches[1].state = "ok"
        /\ cache[<<"eru_type_mapping">>].by = b

----------------------------------------------------------------------------
(* Properties of a cache hit *)

\* the lookups a call makes when it is delivered (the listing of a label
\* resolution that waits for the catalogue is looked up later)
AtDelivery(c, i) == ~(calls[c].typeMapping.state = "miss" /\ i > 1)

\* a step in which a lookup of call c is a hit leaves the entry as it was
\* and gives the call the data of the entry
HitLeavesTheEntry ==
    \A c \in Ids : \A i \in DOMAIN calls'[c].fetches :
        (i \notin DOMAIN calls[c].fetches /\ calls'[c].fetches[i].state = "hit") =>
            LET url == calls'[c].fetches[i].url
            IN  /\ url \in DOMAIN cache
                /\ cache'[url] = cache[url]
                /\ calls'[c].fetches[i].data = cache[url].data

\* so does a hit on the type mapping
MappingHitLeavesTheEntry ==
    \A c \in Ids :
        (calls[c].pc = "idle" /\ calls'[c].typeMapping.state = "hit") =>
            /\ cache'[<<"eru_type_mapping">>] = cache[<<"eru_type_mapping">>]
            /\ calls'[c].typeMapping.data = cache[<<"eru_type_mapping">>].data

\* a hit is no request: it is never answered and never changes
HitStaysAHit ==
    \A c \in Ids : \A i \in DOMAIN calls[c].fetches :
        calls[c].fetches[i].state = "hit" => calls'[c].fetches[i] = calls[c].fetches[i]

\* an entry found at delivery is a hit exactly when the call is delivered
\* less than five minutes after the answer that stored the entry
ExpiryCountsFromTheFetch ==
    \A c \in Ids : \A i \in DOMAIN calls[c].fetches :
        LET f == calls[c].fetches[i]
        IN  (f.seenBy # 0 /\ AtDelivery(c, i)) =>
                /\ \E j \in DOMAIN calls[f.seenBy].fetches :
                      /\ calls[f.seenBy].fetches[j].url = f.url
                      /\ calls[f.seenBy].fetches[j].state = "ok"
                      /\ calls[f.seenBy].fetches[j].storedAt = calls[c].at - f.seenAge
                /\ f.state = "hit" <=> f.seenAge < FiveMinutes
                /\ f.state = "hit" => (f.storedAt = 0 - 1 /\ f.failure.kind = "none")

\* C25: a cache hit is read-only: it issues no HTTP request and changes
\* neither the value nor the timestamp of the entry, so an entry expires
\* exactly TTL after the fetch that stored it, however many hits happen in
\* between (no sliding expiration).
C25_HitIsReadOnly ==
    /\ []ExpiryCountsFromTheFetch
    /\ [][HitLeavesTheEntry /\ MappingHitLeavesTheEntry /\ HitStaysAHit]_vars

\* stored by a, a hit for b a millisecond before the TTL, a miss for c
\* at the TTL, a millisecond after the hit
C25_Witness ==
    \E a \in Ids : \E b \in Ids : \E c \in Ids :
        /\ IsEruTypes(a) /\ IsEruTypes(b) /\ IsEruTypes(c)
        /\ Started(a) /\ Started(b) /\ Started(c)
        /\ calls[a].fetches[1].state = "ok"
        /\ calls[b].fetches[1].seenBy = a
        /\ calls[b].fetches[1].state = "hit"
        /\ calls[b].fetches[1].seenAge = FiveMinutes - 1
        /\ calls[c].fetches[1].seenBy = a
        /\ calls[c].fetches[1].seenAge = FiveMinutes
        /\ calls[c].fetches[1].state = "pending"
        /\ calls[c].at - calls[b].at = 1

----------------------------------------------------------------------------
(* Properties of the age of what a call is served *)

\* when the catalogue a call built the mapping from came from upstream:
\* with the answer to its own request, or when the entry it hit was stored
CatalogueObtainedAt(c) ==
    IF calls[c].fetches[1].state = "ok" THEN calls[c].fetches[1].storedAt
    ELSE calls[c].at - calls[c].fetches[1].seenAge

\* every payload a call takes from the cache at delivery came from upstream
\* less than five minutes before
PayloadsAreFresh ==
    \A c \in Ids : \A i \in DOMAIN calls[c].fetches :
        (calls[c].fetches[i].state = "hit" /\ AtDelivery(c, i)) =>
            \E j \in DOMAIN calls[calls[c].fetches[i].seenBy].fetches :
                LET g == calls[calls[c].fetches[i].seenBy].fetches[j]
                IN  /\ g.url = calls[c].fetches[i].url
                    /\ g.state = "ok"
                    /\ g.data = calls[c].fetches[i].data
                    /\ calls[c].at - g.storedAt < FiveMinutes
                    /\ calls[c].at - g.storedAt >= 0

\* the mapping a call takes from the cache was built from a catalogue that
\* came from upstream less than five minutes before
MappingIsFresh ==
    \A c \in Ids :
        calls[c].typeMapping.state = "hit" =>
            /\ calls[c].typeMapping.data =
                  getERUTypeMapping(CatalogueOf(calls[c].typeMapping.seenBy))
            /\ calls[c].at - CatalogueObtainedAt(calls[c].typeMapping.seenBy) < FiveMinutes

\* C26: bounded staleness: every payload or derived value that a call takes
\* from the cache (the ERU type mapping used to resolve a label included)
\* was obtained from upstream less than TTL (5 minutes) before that call.
C26_BoundedStaleness == PayloadsAreFresh /\ MappingIsFresh

----------------------------------------------------------------------------
(* Properties of the keys a label resolves to *)

\* no two entries of the catalogue have the same label, letter case aside
LabelsDistinct(entries) ==
    \A j \in DOMAIN entries : \A k \in DOMAIN entries :
        j # k => toLowerCase(entries[j].label) # toLowerCase(entries[k].label)

\* the entries the label of the call names exactly, letter case aside
NamedEntries(c) ==
    {k \in DOMAIN CatalogueOf(c) :
        toLowerCase(CatalogueOf(c)[k].label) = toLowerCase(LabelOf(c))}

\* C27: for every type catalogue and every entry e in it, get_erus_by_type
\* called with e's exact label in any letter case queries upstream with e's
\* key; an alias derived from another entry never replaces the key stored
\* for an exact label.
C27_ExactLabelResolvesToItsKey ==
    \A c \in Ids :
        (IsByLabel(c) /\ HasCatalogue(c) /\ LabelsDistinct(CatalogueOf(c))) =>
            \A k \in NamedEntries(c) :
                /\ Len(calls[c].fetches) = 2
                /\ Carries(calls[c].fetches[2].url, "type", CatalogueOf(c)[k].key)

\* the call failed with 'Unknown ERU type'
FailedAsUnknown(c) ==
    /\ Failed(c)
    /\ includes(MessageOf(calls[c].response.body), <<"Unknown ERU type: ">> \o LabelOf(c))

\* C28: whenever get_erus_by_type with a non-numeric label does not fail
\* with 'Unknown ERU type', the type value it places in the upstream request
\* is the key of some entry of the type catalogue; no label resolves to a
\* bookkeeping value of the mapping such as its _reverse table.
C28_ResolvedValueIsACatalogueKey ==
    \A c \in Ids :
        (IsByLabel(c) /\ HasCatalogue(c) /\ ~FailedAsUnknown(c)) =>
            /\ Len(calls[c].fetches) = 2
            /\ \E k \in DOMAIN CatalogueOf(c) :
                  Carries(calls[c].fetches[2].url, "type", CatalogueOf(c)[k].key)

----------------------------------------------------------------------------
(* Properties of the cache entries of the statistics *)

\* the arguments limit=1000, offset=0
ThousandFromZero == [p \in {"limit", "offset"} |-> IF p = "limit" THEN 1000 ELSE 0]

\* the descriptors the build requests for the two listings with them
ListingKeys ==
    <<Plan(variant, "get_completed_drefs", ThousandFromZero).urls[1],
      Plan(variant, "get_ongoing_drefs", ThousandFromZero).urls[1]>>

\* every key of the cache is the descriptor of a request of some call, and
\* no entry holds statistics
OnlyResponsesAreCached ==
    \A key \in DOMAIN cache :
        /\ \E c \in Ids : \E i \in DOMAIN calls[c].fetches :
              /\ calls[c].fetches[i].url = key
              /\ calls[c].fetches[i].state = "ok"
        /\ \A c \in Ids :
              (IsStatistics(c) /\ Succeeded(c)) => cache[key].data # StatisticsOf(c)

StatisticsUseTheListingKeys ==
    \A c \in Ids :
        (IsStatistics(c) /\ Started(c)) =>
            /\ Urls(c) = ListingKeys
            /\ \A i \in 1..2 :
                  IF Missed(calls[c].fetches[i])
                  THEN calls[c].fetches[i].state \in {"pending", "ok", "failed"}
                  ELSE /\ calls[c].fetches[i].state = "hit"
                       /\ calls[c].fetches[i].storedAt = 0 - 1
            /\ Cardinality(Issued(c)) =
                  Cardinality({i \in 1..2 : Missed(calls[c].fetches[i])})
            /\ \A i \in 1..2 :
                  calls[c].fetches[i].state = "ok" =>
                      /\ ListingKeys[i] \in DOMAIN cache
                      /\ cache[ListingKeys[i]].timestamp >= calls[c].fetches[i].storedAt

\* a step changes the cache only under the descriptor of a request that is
\* answered in that step
OnlyAnswersAreWritten ==
    \A key \in DOMAIN cache' :
        (key \notin DOMAIN cache \/ cache'[key] # cache[key]) => AnsweredStep(key)

\* C29: get_dref_statistics reads and writes the same cache entries as
\* get_completed_drefs(limit=1000, offset=0) and
\* get_ongoing_drefs(limit=1000, offset=0): it issues exactly one upstream
\* fetch for each of those two keys that is missing or stale and none for a
\* fresh one (0, 1 or 2 fetches per call), and the statistics result itself
\* is never stored in the cache.
C29_StatisticsShareTheListingEntries ==
    /\ [](StatisticsUseTheListingKeys /\ OnlyResponsesAreCached)
    /\ [][OnlyAnswersAreWritten]_vars

\* the listing stored the completed operations, the statistics took them
\* from the cache and fetched the ongoing ones only
C29_Witness ==
    \E a \in Ids : \E c \in Ids :
        /\ IsCall(a) /\ inbox[a].name = "get_completed_drefs" /\ Succeeded(a)
        /\ IsStatistics(c) /\ Succeeded(c)
        /\ calls[c].fetches[1].state = "hit"
        /\ calls[c].fetches[1].seenBy = a
        /\ calls[c].fetches[2].state = "ok"
        /\ Cardinality(Issued(c)) = 1
        /\ DOMAIN cache = {ListingKeys[1], ListingKeys[2]}
        /\ cache[ListingKeys[1]].by = a
        /\ cache[ListingKeys[2]].by = c

----------------------------------------------------------------------------
(* Properties of termination *)

Pending(c) == {i \in DOMAIN calls[c].fetches : calls[c].fetches[i].state = "pending"}

\* a call that waits waits for a request, and a call that has returned has
\* its envelope
WaitsForARequest ==
    \A c \in Ids :
        /\ calls[c].pc = "waiting" => Pending(c) # {}
        /\ (IsCall(c) /\ Returned(c)) =>
              /\ calls[c].response # NoResponse
              /\ IsEnvelope(calls[c].response.body)

\* a waiting call returns only in a step that answers one of its requests:
\* the passing of time or another call's step never makes it return
ReturnsOnlyOnAnswer ==
    \A c \in Ids :
        (calls[c].pc = "waiting" /\ calls'[c] # calls[c]) =>
            \E i \in Pending(c) : calls'[c].fetches[i].state \in {"ok", "failed"}

\* a call returns once: what it returned stays
ReturnsOnce ==
    \A c \in Ids :
        Returned(c) => (calls'[c].pc = "done" /\ calls'[c].response = calls[c].response)

\* call c is delivered and none of its requests stays unanswered for ever
EveryRequestIsAnswered(c) ==
    /\ <>(received >= c)
    /\ \A i \in 1..2 : []<>(i \notin Pending(c))

\* a call that is delivered and whose requests are all answered returns,
\* whatever happens to the requests of the other calls
AnsweredCallsReturn ==
    \A c \in 1..MaxCalls : EveryRequestIsAnswered(c) => <>(calls[c].pc = "done")

\* a call has not returned while one of its requests is unanswered
ReturnsAfterEveryFetch == \A c \in Ids : Pending(c) # {} => ~Returned(c)

\* a call that has returned while one of its requests is unanswered returned
\* the failure of another of its requests
ReturnsEarlyOnlyOnFailure ==
    \A c \in Ids :
        (Returned(c) /\ Pending(c) # {}) =>
            /\ Failed(c)
            /\ \E i \in DOMAIN calls[c].fetches : calls[c].fetches[i].state = "failed"

\* C30: if every upstream fetch that is issued eventually responds or
\* fails, every call eventually returns, with exactly one Result Envelope;
\* the core applies no timeout of its own, so a call whose fetch never
\* completes never returns, while the other calls still complete.
C30_NoCallReturnsBeforeItsFetches ==
    /\ AnsweredCallsReturn
    /\ [](WaitsForARequest /\ ReturnsAfterEveryFetch)
    /\ [][ReturnsOnlyOnAnswer /\ ReturnsOnce]_vars

\* C30, amended: a call whose requests are all answered returns, with one
\* envelope; a waiting call returns only in a step that answers one of its
\* requests, never by the passing of time; a call returns before all its
\* requests are answered only with the failure of one of them.
C30_EveryAnsweredCallReturns ==
    /\ AnsweredCallsReturn
    /\ [](WaitsForARequest /\ ReturnsEarlyOnlyOnFailure)
    /\ [][ReturnsOnlyOnAnswer /\ ReturnsOnce]_vars

\* the statistics have returned the failure of one fetch while the other is
\* unanswered, and a call delivered after them still waits for its request
\* when the clock has advanced
C30_Witness ==
    /\ received = Len(inbox)
    /\ IsStatistics(1)
    /\ Failed(1)
    /\ Pending(1) # {}
    /\ calls[2].pc = "waiting"
    /\ Pending(2) # {}
    /\ now - calls[2].at = cacheTimeout - 1
    /\ ticksLeft = 0

====
